---- MODULE Spec2Model ----
(***************************************************************************)
(* Model of the .env import / export logic of the Bitwarden Secrets        *)
(* Explorer extension (src/commands/secretCommands.ts and its later        *)
(* revision with writeSecretsToFile).                                      *)
(*                                                                         *)
(* A string is a sequence of one-character strings; a JavaScript object    *)
(* used as a dictionary is a sequence of [key, value] records in insertion *)
(* order, with unique keys.                                                *)
(***************************************************************************)
EXTENDS Integers, Sequences, FiniteSets, Bags, TLC

\* ------------------------------------------------------------------ bounds
MaxTextLen == 6      \* longest text handed to parseEnvFile
MaxDataChars == 4    \* characters (keys + values) of a mapping handed to formatEnvFile
MaxDataEntries == 2  \* entries of a mapping handed to formatEnvFile
MaxFileLines == 2    \* lines of the .env file before a command runs
MaxSecrets == 2      \* secrets of the project before a command runs

\* -------------------------------------------------------------- characters
NL == "\n"
SP == " "
EQ == "="
HASH == "#"

Alphabet == {"a", EQ, HASH, SP, NL}

\* String.prototype.trim strips white space and line terminators
IsWhiteSpace(c) == c \in {SP, NL}

StrsUpTo(n) == UNION {[1..k -> Alphabet] : k \in 0..n}

\* ------------------------------------------------- JavaScript string calls
\* s.startsWith(c) for a one-character c
startsWith(s, c) == Len(s) > 0 /\ s[1] = c

RECURSIVE indexOfFrom(_, _, _)
indexOfFrom(s, c, i) ==
  IF i > Len(s) THEN -1
  ELSE IF s[i] = c THEN i - 1
  ELSE indexOfFrom(s, c, i + 1)

\* s.indexOf(c): 0-based index of the first occurrence, -1 when there is none
indexOf(s, c) == indexOfFrom(s, c, 1)

\* s.substring(start, end) with 0-based start (inclusive) and end (exclusive)
substring(s, start, end) == SubSeq(s, start + 1, end)

\* s.substring(start)
substringFrom(s, start) == SubSeq(s, start + 1, Len(s))

RECURSIVE trimStart(_)
trimStart(s) ==
  IF s = <<>> THEN s
  ELSE IF IsWhiteSpace(s[1]) THEN trimStart(Tail(s))
  ELSE s

RECURSIVE trimEnd(_)
trimEnd(s) ==
  IF s = <<>> THEN s
  ELSE IF IsWhiteSpace(s[Len(s)]) THEN trimEnd(SubSeq(s, 1, Len(s) - 1))
  ELSE s

\* s.trim()
trim(s) == trimEnd(trimStart(s))

RECURSIVE splitFrom(_, _, _)
splitFrom(s, i, cur) ==
  IF i > Len(s) THEN <<cur>>
  ELSE IF s[i] = NL THEN <<cur>> \o splitFrom(s, i + 1, <<>>)
  ELSE splitFrom(s, i + 1, Append(cur, s[i]))

\* content.split('\n'): always at least one piece
split(s) == splitFrom(s, 1, <<>>)

RECURSIVE join(_, _)
\* parts.join(sep)
join(parts, sep) ==
  IF parts = <<>> THEN <<>>
  ELSE IF Len(parts) = 1 THEN parts[1]
  ELSE parts[1] \o sep \o join(Tail(parts), sep)

\* ------------------------------------------ objects used as dictionaries
ObjKeys(o) == [i \in 1..Len(o) |-> o[i].key]

ObjHas(o, k) == \E i \in 1..Len(o) : o[i].key = k

\* the value undefined, distinct from every string of the model
Undefined == <<"undefined">>

\* o[k]
ObjGet(o, k) ==
  IF ObjHas(o, k) THEN o[CHOOSE i \in 1..Len(o) : o[i].key = k].value ELSE Undefined

\* o[k] = v that leaves an existing key alone
ObjSet_keepFirst(o, k, v) ==
  IF ObjHas(o, k) THEN o
  ELSE Append(o, [key |-> k, value |-> v])

Digits == {"0", "1", "2", "3", "4", "5", "6", "7", "8", "9"}

DigitValue(c) ==
  CASE c = "0" -> 0 [] c = "1" -> 1 [] c = "2" -> 2 [] c = "3" -> 3 [] c = "4" -> 4
    [] c = "5" -> 5 [] c = "6" -> 6 [] c = "7" -> 7 [] c = "8" -> 8 [] c = "9" -> 9
    [] OTHER -> 0

RECURSIVE DigitsLess(_, _)
\* numerals of the same length, compared digit by digit
DigitsLess(a, b) ==
  IF a = <<>> THEN FALSE
  ELSE IF DigitValue(a[1]) # DigitValue(b[1]) THEN DigitValue(a[1]) < DigitValue(b[1])
  ELSE DigitsLess(Tail(a), Tail(b))

\* a < b for canonical decimal numerals
NumeralLess(a, b) == Len(a) < Len(b) \/ (Len(a) = Len(b) /\ DigitsLess(a, b))

\* the property keys JavaScript treats as array indices: canonical decimal
\* numerals below 2^32 - 1
IsArrayIndex(k) ==
  /\ Len(k) \in 1..10
  /\ \A i \in 1..Len(k) : k[i] \in Digits
  /\ (Len(k) > 1 => k[1] # "0")
  /\ NumeralLess(k, <<"4", "2", "9", "4", "9", "6", "7", "2", "9", "5">>)

\* o[k] = v with every new key appended, whatever it looks like
ObjSet_appendOnly(o, k, v) ==
  IF ObjHas(o, k)
  THEN [i \in 1..Len(o) |-> IF o[i].key = k THEN [key |-> k, value |-> v] ELSE o[i]]
  ELSE Append(o, [key |-> k, value |-> v])

\* o[k] = v in the order Object.keys / Object.entries / spread enumerate: an
\* existing key keeps its place; a new array-index key goes among the index
\* keys, which come first in ascending numeric order; any other new key goes
\* last
ObjSet(o, k, v) ==
  IF ObjHas(o, k)
  THEN [i \in 1..Len(o) |-> IF o[i].key = k THEN [key |-> k, value |-> v] ELSE o[i]]
  ELSE IF IsArrayIndex(k)
  THEN LET before == {i \in 1..Len(o) :
                        IsArrayIndex(o[i].key) /\ NumeralLess(o[i].key, k)}
       IN SubSeq(o, 1, Cardinality(before)) \o <<[key |-> k, value |-> v]>>
            \o SubSeq(o, Cardinality(before) + 1, Len(o))
  ELSE Append(o, [key |-> k, value |-> v])

\* the key/value pairs of an object, order forgotten
ObjPairs(o) == {<<o[i].key, o[i].value>> : i \in 1..Len(o)}

\* ------------------------------------------------- parseEnvFile / formatEnvFile
\* body of the loop of parseEnvFile for one line
parseLine_emptyKey(result, line) ==
  LET trimmed == trim(line) IN
  IF trimmed # <<>> /\ ~startsWith(trimmed, HASH)
  THEN LET equalIndex == indexOf(trimmed, EQ) IN
       IF equalIndex >= 0
       THEN ObjSet(result,
                   trim(substring(trimmed, 0, equalIndex)),
                   trim(substringFrom(trimmed, equalIndex + 1)))
       ELSE result
  ELSE result

parseLine(result, line) ==
  LET trimmed == trim(line) IN
  IF trimmed # <<>> /\ ~startsWith(trimmed, HASH)
  THEN LET equalIndex == indexOf(trimmed, EQ) IN
       IF equalIndex > 0
       THEN ObjSet(result,
                   trim(substring(trimmed, 0, equalIndex)),
                   trim(substringFrom(trimmed, equalIndex + 1)))
       ELSE result
  ELSE result

RECURSIVE parseLines(_, _, _)
parseLines(lines, i, result) ==
  IF i > Len(lines) THEN result
  ELSE parseLines(lines, i + 1, parseLine(result, lines[i]))

parseEnvFile(content) == parseLines(split(content), 1, <<>>)

\* formatEnvFile with a stray '=' after every value
formatEnvFile_trailingEq(data) ==
  join([i \in 1..Len(data) |-> data[i].key \o <<EQ>> \o data[i].value \o <<EQ>>], <<NL>>)

formatEnvFile_spaceJoined(data) ==
  join([i \in 1..Len(data) |-> data[i].key \o <<EQ>> \o data[i].value], <<SP>>)

formatEnvFile(data) ==
  join([i \in 1..Len(data) |-> data[i].key \o <<EQ>> \o data[i].value], <<NL>>)

\* ------------------------------------------------ the project's secrets
\* a secret of the store: [id, key, value]; a tree item: [label, type, id]
NoId == 0

Dismissed == "dismissed"

\* collation rank used by localeCompare for the characters of the model
CharRank(c) ==
  CASE c = NL -> 0
    [] c = SP -> 1
    [] c = HASH -> 2
    [] c = EQ -> 3
    [] c \in Digits -> 10 + DigitValue(c)
    [] c = "a" -> 20
    [] c = "b" -> 21
    [] c = "c" -> 22
    [] c = "d" -> 23
    [] c = "x" -> 24
    [] c = "y" -> 25
    [] OTHER -> 30

RECURSIVE localeCompare(_, _)
\* a.localeCompare(b): negative, zero or positive
localeCompare(a, b) ==
  IF a = <<>> /\ b = <<>> THEN 0
  ELSE IF a = <<>> THEN -1
  ELSE IF b = <<>> THEN 1
  ELSE IF CharRank(a[1]) < CharRank(b[1]) THEN -1
  ELSE IF CharRank(a[1]) > CharRank(b[1]) THEN 1
  ELSE localeCompare(Tail(a), Tail(b))

RECURSIVE insertByKey(_, _)
insertByKey(sorted, secret) ==
  IF sorted = <<>> THEN <<secret>>
  ELSE IF localeCompare(secret.key, sorted[1].key) < 0 THEN <<secret>> \o sorted
  ELSE <<sorted[1]>> \o insertByKey(Tail(sorted), secret)

RECURSIVE sortByKey(_)
\* secrets.sort((a, b) => a.key.localeCompare(b.key)), a stable sort
sortByKey(secrets) ==
  IF secrets = <<>> THEN <<>>
  ELSE insertByKey(sortByKey(SubSeq(secrets, 1, Len(secrets) - 1)), secrets[Len(secrets)])

NoSecretsFound == <<"No Secrets Found">>

ErrorLoadingSecrets == <<"Error Loading Secrets">>

\* BitwardenSecretsProvider.getSecretsForProject: the items of the project,
\* or one placeholder item without id when there is none or the listing fails
getSecretsForProject(secrets, listFails) ==
  IF listFails
  THEN <<[label |-> ErrorLoadingSecrets, type |-> "secret", id |-> NoId]>>
  ELSE IF secrets = <<>>
  THEN <<[label |-> NoSecretsFound, type |-> "secret", id |-> NoId]>>
  ELSE LET sorted == sortByKey(secrets)
       IN [i \in 1..Len(sorted) |->
             [label |-> sorted[i].key, type |-> "secret", id |-> sorted[i].id]]

\* BitwardenSecretsProvider.getSecretValue: undefined when getSecret throws
getSecretValue(secrets, secretId, fetchFails) ==
  IF secretId \in fetchFails \/ ~\E i \in 1..Len(secrets) : secrets[i].id = secretId
  THEN Undefined
  ELSE secrets[CHOOSE i \in 1..Len(secrets) : secrets[i].id = secretId].value

RECURSIVE collectSecretData_keepsEmpty(_, _, _, _, _)
\* the loop with the test secretValue !== undefined in place of if (secretValue)
collectSecretData_keepsEmpty(items, i, secrets, fetchFails, secretData) ==
  IF i > Len(items) THEN secretData
  ELSE LET secretValue == getSecretValue(secrets, items[i].id, fetchFails)
       IN IF /\ items[i].type = "secret"
             /\ items[i].id # NoId
             /\ secretValue # Undefined
          THEN collectSecretData_keepsEmpty(items, i + 1, secrets, fetchFails,
                                            ObjSet(secretData, items[i].label, secretValue))
          ELSE collectSecretData_keepsEmpty(items, i + 1, secrets, fetchFails, secretData)

RECURSIVE collectSecretData(_, _, _, _, _)
\* the loop of exportProjectSecretsCommand that fills secretData
collectSecretData(items, i, secrets, fetchFails, secretData) ==
  IF i > Len(items) THEN secretData
  ELSE LET secretValue == getSecretValue(secrets, items[i].id, fetchFails)
       IN IF /\ items[i].type = "secret"
             /\ items[i].id # NoId
             /\ secretValue # Undefined
             /\ secretValue # <<>>
          THEN collectSecretData(items, i + 1, secrets, fetchFails,
                                 ObjSet(secretData, items[i].label, secretValue))
          ELSE collectSecretData(items, i + 1, secrets, fetchFails, secretData)

\* ---------------------------------------------------------- export merge
\* keys of secretData that existingContent has, in the order of Object.keys
conflictsOf(existingContent, secretData) ==
  SelectSeq(ObjKeys(secretData), LAMBDA k : ObjHas(existingContent, k))

newSecretsOf(existingContent, secretData) ==
  SelectSeq(ObjKeys(secretData), LAMBDA k : ~ObjHas(existingContent, k))

\* let finalContent = { ...existingContent }
spreadCopy_dropsLast(existingContent) ==
  IF existingContent = <<>> THEN <<>>
  ELSE SubSeq(existingContent, 1, Len(existingContent) - 1)

spreadCopy(existingContent) == existingContent

RECURSIVE assignAll_skipsLast(_, _, _)
assignAll_skipsLast(finalContent, keys, secretData) ==
  IF Len(keys) <= 1 THEN finalContent
  ELSE assignAll_skipsLast(ObjSet(finalContent, keys[1], ObjGet(secretData, keys[1])),
                           Tail(keys), secretData)

RECURSIVE assignAll(_, _, _)
\* for (const key of keys) finalContent[key] = secretData[key]
assignAll(finalContent, keys, secretData) ==
  IF keys = <<>> THEN finalContent
  ELSE assignAll(ObjSet(finalContent, keys[1], ObjGet(secretData, keys[1])),
                 Tail(keys), secretData)

RECURSIVE chooseEachOrCancel_keepOverwrites(_, _, _, _, _)
chooseEachOrCancel_keepOverwrites(finalContent, secretData, conflicts, answers, i) ==
  IF i > Len(conflicts) THEN [cancelled |-> FALSE, finalContent |-> finalContent]
  ELSE IF answers[i] = Dismissed THEN [cancelled |-> TRUE, finalContent |-> finalContent]
  ELSE chooseEachOrCancel_keepOverwrites(
         ObjSet(finalContent, conflicts[i], ObjGet(secretData, conflicts[i])),
         secretData, conflicts, answers, i + 1)

RECURSIVE chooseEachOrCancel(_, _, _, _, _)
\* writeSecretsToFile, 'Choose for each conflict': a dismissed prompt returns
chooseEachOrCancel(finalContent, secretData, conflicts, answers, i) ==
  IF i > Len(conflicts) THEN [cancelled |-> FALSE, finalContent |-> finalContent]
  ELSE IF answers[i] = Dismissed THEN [cancelled |-> TRUE, finalContent |-> finalContent]
  ELSE IF answers[i] = "Overwrite"
  THEN chooseEachOrCancel(ObjSet(finalContent, conflicts[i], ObjGet(secretData, conflicts[i])),
                          secretData, conflicts, answers, i + 1)
  ELSE chooseEachOrCancel(finalContent, secretData, conflicts, answers, i + 1)

RECURSIVE chooseEachYesNo(_, _, _, _, _)
\* handleEnvFileExport, 'Choose for each conflict': only 'Yes' overwrites,
\* a dismissed prompt is treated like 'No' and the loop goes on
chooseEachYesNo(finalContent, secretData, conflicts, answers, i) ==
  IF i > Len(conflicts) THEN [cancelled |-> FALSE, finalContent |-> finalContent]
  ELSE IF answers[i] = "Yes"
  THEN chooseEachYesNo(ObjSet(finalContent, conflicts[i], ObjGet(secretData, conflicts[i])),
                       secretData, conflicts, answers, i + 1)
  ELSE chooseEachYesNo(finalContent, secretData, conflicts, answers, i + 1)

\* resolution of the conflicts in writeSecretsToFile
resolveOrCancel(existingContent, secretData, conflicts, conflictAction, answers) ==
  IF conflicts = <<>> THEN [cancelled |-> FALSE, finalContent |-> spreadCopy(existingContent)]
  ELSE IF conflictAction = Dismissed
  THEN [cancelled |-> TRUE, finalContent |-> spreadCopy(existingContent)]
  ELSE IF conflictAction = "Overwrite all conflicts"
  THEN [cancelled |-> FALSE,
        finalContent |-> assignAll(spreadCopy(existingContent), conflicts, secretData)]
  ELSE IF conflictAction = "Choose for each conflict"
  THEN chooseEachOrCancel(spreadCopy(existingContent), secretData, conflicts, answers, 1)
  ELSE [cancelled |-> FALSE, finalContent |-> spreadCopy(existingContent)]

\* resolution of the conflicts in handleEnvFileExport
resolveYesNo(existingContent, secretData, conflicts, conflictAction, answers) ==
  IF conflicts = <<>> THEN [cancelled |-> FALSE, finalContent |-> spreadCopy(existingContent)]
  ELSE IF conflictAction = Dismissed
  THEN [cancelled |-> TRUE, finalContent |-> spreadCopy(existingContent)]
  ELSE IF conflictAction = "Overwrite all conflicts"
  THEN [cancelled |-> FALSE,
        finalContent |-> assignAll(spreadCopy(existingContent), conflicts, secretData)]
  ELSE IF conflictAction = "Choose for each conflict"
  THEN chooseEachYesNo(spreadCopy(existingContent), secretData, conflicts, answers, 1)
  ELSE [cancelled |-> FALSE, finalContent |-> spreadCopy(existingContent)]

\* conflicts.filter(key => finalContent[key] === secretData[key]).length
updatedCount(conflicts, finalContent, secretData) ==
  Len(SelectSeq(conflicts, LAMBDA k : ObjGet(finalContent, k) = ObjGet(secretData, k)))

\* the target file: [exists, readable, text]; readFile throws on a file that
\* does not exist or cannot be read
readFails(f) == ~f.exists \/ ~f.readable

\* try { existingContent = parseEnvFile(...) } catch { /* empty content */ }
readExisting(f) == IF readFails(f) THEN <<>> ELSE parseEnvFile(f.text)

\* vscode.workspace.fs.writeFile
\* a file the command creates is one it can read afterwards
writeFile(f, text) ==
  [exists |-> TRUE, readable |-> IF f.exists THEN f.readable ELSE TRUE, text |-> text]

\* everything after the target file is known, common to both revisions:
\* classify, resolve, add the new keys, write and report
mergeAndWrite(via, f, existingContent, secretData, resolution) ==
  LET conflicts == conflictsOf(existingContent, secretData)
      newSecrets == newSecretsOf(existingContent, secretData)
      finalContent == assignAll(resolution.finalContent, newSecrets, secretData)
      updated == updatedCount(conflicts, finalContent, secretData)
  IN IF resolution.cancelled
     THEN [wrote |-> FALSE, file |-> f, finalContent |-> <<>>,
           added |-> 0, updated |-> 0, total |-> 0, messages |-> <<>>]
     ELSE [wrote |-> TRUE,
           file |-> writeFile(f, formatEnvFile(finalContent)),
           finalContent |-> finalContent,
           added |-> Len(newSecrets),
           updated |-> updated,
           total |-> Len(finalContent),
           messages |->
             IF via = "writeSecretsToFile"
             THEN <<[kind |-> "info", text |-> "Exported",
                     new |-> Len(newSecrets), updated |-> updated,
                     total |-> Len(finalContent)]>>
             ELSE <<[kind |-> "info", text |-> "Secrets exported",
                     new |-> Len(newSecrets), updated |-> updated, total |-> 0]>>]

\* writeSecretsToFile(targetFile, secretData)
writeSecretsToFile(f, secretData, conflictAction, answers) ==
  LET existingContent == readExisting(f)
      conflicts == conflictsOf(existingContent, secretData)
  IN mergeAndWrite("writeSecretsToFile", f, existingContent, secretData,
                   resolveOrCancel(existingContent, secretData, conflicts,
                                   conflictAction, answers))

\* handleEnvFileExport(secretData) once the file choice is made: the file is
\* read only when the user picked it in the list of existing files
handleEnvFileExport(f, selection, secretData, conflictAction, answers) ==
  LET existingContent == IF selection = "update" THEN readExisting(f) ELSE <<>>
      conflicts == conflictsOf(existingContent, secretData)
  IN mergeAndWrite("handleEnvFileExport", f, existingContent, secretData,
                   resolveYesNo(existingContent, secretData, conflicts,
                                conflictAction, answers))

\* exportProjectSecretsCommand, revision that calls writeSecretsToFile: the
\* file is chosen first, then the secrets are listed and fetched.
\* in = [selection, listFails, fetchFails, conflictAction, answers]
exportViaWriteSecretsToFile(f, secrets, in) ==
  LET items == getSecretsForProject(secrets, in.listFails)
      secretData == collectSecretData(items, 1, secrets, in.fetchFails, <<>>)
      out == writeSecretsToFile(f, secretData, in.conflictAction, in.answers)
  IN IF in.selection = Dismissed
     THEN [wrote |-> FALSE, file |-> f, finalContent |-> <<>>, added |-> 0,
           updated |-> 0, total |-> 0, messages |-> <<>>,
           readTried |-> FALSE, secretData |-> <<>>]
     ELSE IF Len(items) = 0
     THEN [wrote |-> FALSE, file |-> f, finalContent |-> <<>>, added |-> 0,
           updated |-> 0, total |-> 0,
           messages |-> <<[kind |-> "info", text |-> "No secrets found in this project"]>>,
           readTried |-> FALSE, secretData |-> <<>>]
     ELSE [wrote |-> out.wrote, file |-> out.file, finalContent |-> out.finalContent,
           added |-> out.added, updated |-> out.updated, total |-> out.total,
           messages |-> out.messages,
           readTried |-> TRUE, secretData |-> secretData]

\* exportProjectSecretsCommand, revision that calls handleEnvFileExport: the
\* secrets are listed and fetched first, then the file is chosen
exportViaHandleEnvFileExport(f, secrets, in) ==
  LET items == getSecretsForProject(secrets, in.listFails)
      secretData == collectSecretData(items, 1, secrets, in.fetchFails, <<>>)
      out == handleEnvFileExport(f, in.selection, secretData, in.conflictAction, in.answers)
  IN IF Len(items) = 0
     THEN [wrote |-> FALSE, file |-> f, finalContent |-> <<>>, added |-> 0,
           updated |-> 0, total |-> 0,
           messages |-> <<[kind |-> "info", text |-> "No secrets found in this project"]>>,
           readTried |-> FALSE, secretData |-> <<>>]
     ELSE IF in.selection = Dismissed
     THEN [wrote |-> FALSE, file |-> f, finalContent |-> <<>>, added |-> 0,
           updated |-> 0, total |-> 0, messages |-> <<>>,
           readTried |-> FALSE, secretData |-> secretData]
     ELSE [wrote |-> out.wrote, file |-> out.file, finalContent |-> out.finalContent,
           added |-> out.added, updated |-> out.updated, total |-> out.total,
           messages |-> out.messages,
           readTried |-> (in.selection = "update"), secretData |-> secretData]

\* ----------------------------------------------------------------- import
\* sdkService.deleteSecret(id) when the call succeeds
deleteSecret(secrets, secretId) == SelectSeq(secrets, LAMBDA sec : sec.id # secretId)

\* sdkService.createSecret({key, value, ...}) when the call succeeds; newId is
\* the id Bitwarden gives to the secret
createSecret(secrets, newId, key, value) ==
  Append(secrets, [id |-> newId, key |-> key, value |-> value])

\* existingSecrets.find(secret => secret.type === 'secret' && secret.label === key)
findItem(items, key) ==
  LET hits == {i \in 1..Len(items) : items[i].type = "secret" /\ items[i].label = key}
  IN IF hits = {} THEN [label |-> key, type |-> "secret", id |-> NoId]
     ELSE items[CHOOSE i \in hits : \A j \in hits : i <= j]

RECURSIVE askConflicts(_, _, _, _, _, _)
\* the loop over the conflicts of importSecretsFromEnvCommand.
\* st = [secrets, keysToImport, deleteTried, calls, cancelled]; calls are the
\* calls made to the SDK service, in order
askConflicts(st, items, conflicts, answers, deleteFails, i) ==
  IF i > Len(conflicts) THEN st
  ELSE IF answers[i] \in {Dismissed, "Cancel import"}
  THEN [st EXCEPT !.cancelled = TRUE]
  ELSE IF answers[i] = "Overwrite this secret"
  THEN LET existingSecret == findItem(items, conflicts[i])
           tried == existingSecret.id # NoId
           deleted == tried /\ existingSecret.id \notin deleteFails
       IN askConflicts(
            [secrets |-> IF deleted THEN deleteSecret(st.secrets, existingSecret.id)
                         ELSE st.secrets,
             keysToImport |-> Append(st.keysToImport, conflicts[i]),
             deleteTried |-> IF tried THEN Append(st.deleteTried, existingSecret.id)
                             ELSE st.deleteTried,
             calls |-> IF tried
                       THEN Append(st.calls, [op |-> "deleteSecret", id |-> existingSecret.id])
                       ELSE st.calls,
             cancelled |-> FALSE],
            items, conflicts, answers, deleteFails, i + 1)
  ELSE askConflicts(st, items, conflicts, answers, deleteFails, i + 1)

RECURSIVE createAll_stopsAtFailure(_, _, _, _, _, _)
\* a create loop that gives up at the first createSecret that throws
createAll_stopsAtFailure(st, keysToImport, envData, createFails, firstId, i) ==
  IF i > Len(keysToImport) THEN st
  ELSE LET key == keysToImport[i] IN
       IF key \in createFails
       THEN [st EXCEPT !.errorCount = @ + 1,
                       !.calls = Append(@, [op |-> "createSecret", key |-> key,
                                            value |-> ObjGet(envData, key)])]
       ELSE createAll_stopsAtFailure(
              [secrets |-> createSecret(st.secrets, firstId + st.successCount,
                                        key, ObjGet(envData, key)),
               successCount |-> st.successCount + 1,
               errorCount |-> st.errorCount,
               created |-> Append(st.created, key),
               calls |-> Append(st.calls, [op |-> "createSecret", key |-> key,
                                           value |-> ObjGet(envData, key)])],
              keysToImport, envData, createFails, firstId, i + 1)

RECURSIVE createAll(_, _, _, _, _, _)
\* the loop that creates the secrets of keysToImport.
\* st = [secrets, successCount, errorCount, created, calls]
createAll(st, keysToImport, envData, createFails, firstId, i) ==
  IF i > Len(keysToImport) THEN st
  ELSE LET key == keysToImport[i] IN
       IF key \in createFails
       THEN createAll([st EXCEPT !.errorCount = @ + 1,
                                 !.calls = Append(@, [op |-> "createSecret", key |-> key,
                                                      value |-> ObjGet(envData, key)])],
                      keysToImport, envData, createFails, firstId, i + 1)
       ELSE createAll([secrets |-> createSecret(st.secrets, firstId + st.successCount,
                                                key, ObjGet(envData, key)),
                       successCount |-> st.successCount + 1,
                       errorCount |-> st.errorCount,
                       created |-> Append(st.created, key),
                       calls |-> Append(st.calls, [op |-> "createSecret", key |-> key,
                                                   value |-> ObjGet(envData, key)])],
                      keysToImport, envData, createFails, firstId, i + 1)

ImportNothing(secrets, messages) ==
  [secrets |-> secrets, cancelled |-> FALSE, messages |-> messages,
   envData |-> <<>>, conflicts |-> <<>>, keysToImport |-> <<>>, deleteTried |-> <<>>,
   created |-> <<>>, successCount |-> 0, errorCount |-> 0, calls |-> <<>>,
   refreshed |-> FALSE]

\* the keys of the file that name an item of the project, in file order
importConflicts(envData, items) ==
  SelectSeq(ObjKeys(envData),
            LAMBDA k : \E j \in 1..Len(items) : items[j].type = "secret" /\ items[j].label = k)

\* every key of the file taken as new, conflicting or not
importNewKeys_allKeys(envData, items) == ObjKeys(envData)

importNewKeys(envData, items) ==
  SelectSeq(ObjKeys(envData),
            LAMBDA k : ~\E j \in 1..Len(items) : items[j].type = "secret" /\ items[j].label = k)

\* the result messages once the create loop is over
importReport(listMessages, envData, conflicts, asked, done) ==
  [secrets |-> done.secrets, cancelled |-> FALSE,
   messages |-> listMessages \o
     <<IF done.successCount > 0 /\ done.errorCount = 0
       THEN [kind |-> "info", text |-> "Successfully imported"]
       ELSE IF done.successCount > 0 /\ done.errorCount > 0
       THEN [kind |-> "warning", text |-> "Imported with failures"]
       ELSE [kind |-> "error", text |-> "Failed to import secrets. Check output for details."]>>,
   envData |-> envData, conflicts |-> conflicts,
   keysToImport |-> asked.keysToImport, deleteTried |-> asked.deleteTried,
   created |-> done.created, successCount |-> done.successCount,
   errorCount |-> done.errorCount, calls |-> done.calls, refreshed |-> TRUE]

\* what follows the conflict prompts: cancelled, nothing to import, or create
importAfterPrompts(secrets, createFails, listMessages, envData, conflicts, asked) ==
  IF asked.cancelled
  THEN [ImportNothing(asked.secrets, listMessages) EXCEPT
          !.envData = envData, !.conflicts = conflicts, !.cancelled = TRUE,
          !.keysToImport = asked.keysToImport, !.deleteTried = asked.deleteTried,
          !.calls = asked.calls]
  ELSE IF asked.keysToImport = <<>>
  THEN [ImportNothing(asked.secrets,
                      listMessages \o <<[kind |-> "info", text |-> "No secrets to import"]>>)
          EXCEPT !.envData = envData, !.conflicts = conflicts,
                 !.deleteTried = asked.deleteTried, !.calls = asked.calls]
  ELSE importReport(listMessages, envData, conflicts, asked,
                    createAll([secrets |-> asked.secrets, successCount |-> 0,
                               errorCount |-> 0, created |-> <<>>, calls |-> asked.calls],
                              asked.keysToImport, envData, createFails,
                              1 + Len(secrets), 1))

\* what follows the parse of the selected file
importParsed(secrets, in, envData, items) ==
  IF envData = <<>>
  THEN [ImportNothing(secrets,
          <<[kind |-> "info", text |-> "No valid key=value pairs found in the selected file"]>>)
          EXCEPT !.envData = envData]
  ELSE importAfterPrompts(
         secrets, in.createFails,
         IF in.listFails
         THEN <<[kind |-> "error", text |-> "Failed to load secrets for project"]>>
         ELSE <<>>,
         envData,
         importConflicts(envData, items),
         askConflicts([secrets |-> secrets, keysToImport |-> importNewKeys(envData, items),
                       deleteTried |-> <<>>, calls |-> <<>>, cancelled |-> FALSE],
                      items, importConflicts(envData, items), in.answers, in.deleteFails, 1))

\* importSecretsFromEnvCommand(provider, item) for a project item.
\* in = [selection, listFails, answers, deleteFails, createFails]
importSecretsFromEnvCommand(f, secrets, in) ==
  IF ~f.exists
  THEN ImportNothing(secrets, <<[kind |-> "info", text |-> "No .env files found in workspace"]>>)
  ELSE IF in.selection = Dismissed
  THEN ImportNothing(secrets, <<>>)
  ELSE IF readFails(f)
  THEN ImportNothing(secrets, <<[kind |-> "error", text |-> "Failed to import secrets"]>>)
  ELSE importParsed(secrets, in, parseEnvFile(f.text),
                    getSecretsForProject(secrets, in.listFails))

\* ----------------------------------------------------- terminal utilities
DQ == "\""

SQ == "'"

BS == "\\"

\* the backquote character
BT == "backquote"

\* s.includes(sub)
includes(s, sub) ==
  \E i \in 0..(Len(s) - Len(sub)) : SubSeq(s, i + 1, i + Len(sub)) = sub

\* s.toLowerCase(), for the capitals the terminal names of the model hold
toLowerCase(s) ==
  [i \in 1..Len(s) |-> IF s[i] = "U" THEN "u" ELSE IF s[i] = "C" THEN "c" ELSE s[i]]

RECURSIVE replaceAll(_, _, _)
\* s.replace(/c/g, by)
replaceAll(s, c, by) ==
  IF s = <<>> THEN <<>>
  ELSE (IF s[1] = c THEN by ELSE <<s[1]>>) \o replaceAll(Tail(s), c, by)

WSL_TERMINAL_NAMES ==
  << <<"w", "s", "l">>, <<"u", "b", "u", "n", "t", "u">>, <<"d", "e", "b", "i", "a", "n">>, <<"k", "a", "l", "i">>, <<"o", "p", "e", "n", "s", "u", "s", "e">>, <<"f", "e", "d", "o", "r", "a">>, <<"a", "l", "p", "i", "n", "e">>, <<"b", "a", "s", "h">> >>

\* vscode.window.activeTerminal when no terminal is active
NoTerminal == <<"undefined">>

\* detectTerminalType(); env = [platform, activeTerminal]
detectTerminalType(env) ==
  LET terminalName == IF env.activeTerminal = NoTerminal THEN <<>>
                      ELSE toLowerCase(env.activeTerminal)
  IN IF env.platform # "win32" THEN "unix"
     ELSE IF \E i \in 1..Len(WSL_TERMINAL_NAMES) : includes(terminalName, WSL_TERMINAL_NAMES[i])
     THEN "wsl"
     ELSE IF includes(terminalName, <<"c", "m", "d">>) THEN "cmd"
     ELSE "powershell"

\* getEnvVarCommand with the quotes of the value left as they are
getEnvVarCommand_unescaped(env, key, value) ==
  IF detectTerminalType(env) \in {"wsl", "unix"}
  THEN <<"e", "x", "p", "o", "r", "t", " ">> \o key \o <<EQ, DQ>> \o value \o <<DQ>>
  ELSE IF detectTerminalType(env) = "cmd"
  THEN <<"s", "e", "t", " ", DQ>> \o key \o <<EQ>> \o value \o <<DQ>>
  ELSE <<"$", "e", "n", "v", ":">> \o key \o <<EQ, DQ>> \o value \o <<DQ>>

getEnvVarCommand(env, key, value) ==
  LET escapedValue == replaceAll(replaceAll(value, DQ, <<BS, DQ>>), SQ, <<BS, SQ>>)
  IN IF detectTerminalType(env) \in {"wsl", "unix"}
     THEN <<"e", "x", "p", "o", "r", "t", " ">> \o key \o <<EQ, DQ>> \o escapedValue \o <<DQ>>
     ELSE IF detectTerminalType(env) = "cmd"
     THEN <<"s", "e", "t", " ", DQ>> \o key \o <<EQ>> \o escapedValue \o <<DQ>>
     ELSE <<"$", "e", "n", "v", ":">> \o key \o <<EQ, DQ>> \o replaceAll(value, DQ, <<BT, DQ>>) \o <<DQ>>

getEnvCheckInstructions(env) ==
  IF detectTerminalType(env) \in {"wsl", "unix"} THEN "Check with: echo $VARIABLE_NAME"
  ELSE IF detectTerminalType(env) = "cmd" THEN "Check with: echo %VARIABLE_NAME%"
  ELSE "Check with: $env:VARIABLE_NAME"

\* getClearCommand that leaves the terminal as it is
getClearCommand_none(env) == <<"e", "c", "h", "o">>

getClearCommand(env) ==
  IF detectTerminalType(env) \in {"wsl", "unix"} THEN <<"c", "l", "e", "a", "r">>
  ELSE IF detectTerminalType(env) = "cmd" THEN <<"c", "l", "s">>
  ELSE <<"C", "l", "e", "a", "r", "-", "H", "o", "s", "t">>

\* ------------------------------------- load to terminal, copy to clipboard
\* what a command that only reads the secrets leaves behind: the texts sent
\* to the terminal, the text copied (Undefined: clipboard untouched) and the
\* messages and prompts shown
UiQuiet == [sent |-> <<>>, copied |-> Undefined, messages |-> <<>>]

\* the notification of getSecretValue when getSecret throws
FetchError == [kind |-> "error", text |-> "Failed to retrieve secret value"]

\* vscode.window.createTerminal('Bitwarden Secrets') when no terminal is
\* active; the new terminal may or may not be the active one afterwards.
\* env = [platform, activeTerminal, createdBecomesActive]
terminalReady(env) ==
  IF env.activeTerminal = NoTerminal /\ env.createdBecomesActive
  THEN [env EXCEPT !.activeTerminal = <<"B", "i", "t", "w", "a", "r", "d", "e", "n", " ", "S", "e", "c", "r", "e", "t", "s">>]
  ELSE env

\* loadSecretToEnvCommand, revision that types into the terminal
loadSecretToEnvCommand(item, secrets, fetchFails, env) ==
  IF ~(item.type = "secret" /\ item.id # NoId) THEN UiQuiet
  ELSE IF getSecretValue(secrets, item.id, fetchFails) = Undefined
  THEN [UiQuiet EXCEPT !.messages = <<FetchError>>]
  ELSE IF getSecretValue(secrets, item.id, fetchFails) = <<>> THEN UiQuiet
  ELSE [sent |-> <<getEnvVarCommand(env, item.label,
                                    getSecretValue(secrets, item.id, fetchFails)),
                   getClearCommand(terminalReady(env))>>,
        copied |-> Undefined,
        messages |-> <<[kind |-> "info",
                        text |-> "Environment variable has been set in the terminal",
                        names |-> <<item.label>>]>>]

RECURSIVE collectEnvCommands(_, _, _, _, _, _)
\* the loop over the secrets of the project in loadProjectSecretsToEnvCommand.
\* acc = [commands, secretNames, messages]
collectEnvCommands(items, i, secrets, fetchFails, env, acc) ==
  IF i > Len(items) THEN acc
  ELSE IF ~(items[i].type = "secret" /\ items[i].id # NoId)
  THEN collectEnvCommands(items, i + 1, secrets, fetchFails, env, acc)
  ELSE IF getSecretValue(secrets, items[i].id, fetchFails) = Undefined
  THEN collectEnvCommands(items, i + 1, secrets, fetchFails, env,
                          [acc EXCEPT !.messages = Append(@, FetchError)])
  ELSE IF getSecretValue(secrets, items[i].id, fetchFails) = <<>>
  THEN collectEnvCommands(items, i + 1, secrets, fetchFails, env, acc)
  ELSE collectEnvCommands(items, i + 1, secrets, fetchFails, env,
         [acc EXCEPT
            !.commands = Append(@, getEnvVarCommand(env, items[i].label,
                                     getSecretValue(secrets, items[i].id, fetchFails))),
            !.secretNames = Append(@, items[i].label)])

\* the commands of the project, given the listing
envCommandsOf(secrets, listFails, fetchFails, env) ==
  collectEnvCommands(getSecretsForProject(secrets, listFails), 1, secrets, fetchFails, env,
                     [commands |-> <<>>, secretNames |-> <<>>, messages |-> <<>>])

\* loadProjectSecretsToEnvCommand, revision that types into the terminal
loadProjectSecretsToEnvCommand(item, secrets, listFails, fetchFails, env) ==
  IF ~(item.type = "project" /\ item.id # NoId) THEN UiQuiet
  ELSE LET acc == envCommandsOf(secrets, listFails, fetchFails, env)
       IN IF acc.commands = <<>> THEN [UiQuiet EXCEPT !.messages = acc.messages]
          ELSE [sent |-> acc.commands \o <<getClearCommand(terminalReady(env))>>,
                copied |-> Undefined,
                messages |-> acc.messages \o
                  <<[kind |-> "info",
                     text |-> "environment variables have been set in the terminal",
                     count |-> Len(acc.commands), names |-> acc.secretNames]>>]

\* loadSecretToEnvCommand, revision that offers the command in a quick pick
\* and copies it; picked: the user selected the entry
loadSecretToEnvViaClipboard(item, secrets, fetchFails, env, picked) ==
  IF ~(item.type = "secret" /\ item.id # NoId) THEN UiQuiet
  ELSE IF getSecretValue(secrets, item.id, fetchFails) = Undefined
  THEN [UiQuiet EXCEPT !.messages = <<FetchError>>]
  ELSE IF getSecretValue(secrets, item.id, fetchFails) = <<>> THEN UiQuiet
  ELSE LET command == getEnvVarCommand(env, item.label,
                                       getSecretValue(secrets, item.id, fetchFails))
           quickPick == [kind |-> "quickPick", text |-> "Copy Command to Clipboard",
                         description |-> command, detail |-> getEnvCheckInstructions(env)]
       IN IF picked
          THEN [sent |-> <<>>, copied |-> command,
                messages |-> <<quickPick,
                               [kind |-> "info",
                                text |-> "Environment variable command copied to clipboard",
                                detail |-> getEnvCheckInstructions(env)]>>]
          ELSE [sent |-> <<>>, copied |-> Undefined, messages |-> <<quickPick>>]

\* loadProjectSecretsToEnvCommand, revision that copies the commands
loadProjectSecretsToEnvViaClipboard(item, secrets, listFails, fetchFails, env, picked) ==
  IF ~(item.type = "project" /\ item.id # NoId) THEN UiQuiet
  ELSE LET acc == envCommandsOf(secrets, listFails, fetchFails, env)
           quickPick == [kind |-> "quickPick", text |-> "Copy All Commands to Clipboard",
                         count |-> Len(acc.commands),
                         detail |-> getEnvCheckInstructions(env)]
       IN IF acc.commands = <<>> THEN [UiQuiet EXCEPT !.messages = acc.messages]
          ELSE IF picked
          THEN [sent |-> <<>>, copied |-> join(acc.commands, <<NL>>),
                messages |-> acc.messages \o
                  <<quickPick,
                    [kind |-> "info",
                     text |-> "environment variable commands copied to clipboard",
                     count |-> Len(acc.commands),
                     detail |-> getEnvCheckInstructions(env)]>>]
          ELSE [sent |-> <<>>, copied |-> Undefined,
                messages |-> acc.messages \o <<quickPick>>]

\* copySecretCommand, revision that copies key=value
copySecretCommand(item, secrets, fetchFails) ==
  IF ~(item.type = "secret" /\ item.id # NoId) THEN UiQuiet
  ELSE IF getSecretValue(secrets, item.id, fetchFails) = Undefined
  THEN [UiQuiet EXCEPT !.messages = <<FetchError>>]
  ELSE IF getSecretValue(secrets, item.id, fetchFails) = <<>> THEN UiQuiet
  ELSE [sent |-> <<>>,
        copied |-> item.label \o <<EQ>> \o getSecretValue(secrets, item.id, fetchFails),
        messages |-> <<>>]

\* copySecretCommand, revision that copies the value and says so
copySecretValueCommand(item, secrets, fetchFails) ==
  IF ~(item.type = "secret" /\ item.id # NoId) THEN UiQuiet
  ELSE IF getSecretValue(secrets, item.id, fetchFails) = Undefined
  THEN [UiQuiet EXCEPT !.messages = <<FetchError>>]
  ELSE IF getSecretValue(secrets, item.id, fetchFails) = <<>> THEN UiQuiet
  ELSE [sent |-> <<>>,
        copied |-> getSecretValue(secrets, item.id, fetchFails),
        messages |-> <<[kind |-> "info", text |-> "Secret copied to clipboard",
                        names |-> <<item.label>>]>>]

RECURSIVE collectKeyValuePairs(_, _, _, _, _)
\* the loop of copyProjectSecretsCommand. acc = [keyValuePairs, messages]
collectKeyValuePairs(items, i, secrets, fetchFails, acc) ==
  IF i > Len(items) THEN acc
  ELSE IF ~(items[i].type = "secret" /\ items[i].id # NoId)
  THEN collectKeyValuePairs(items, i + 1, secrets, fetchFails, acc)
  ELSE IF getSecretValue(secrets, items[i].id, fetchFails) = Undefined
  THEN collectKeyValuePairs(items, i + 1, secrets, fetchFails,
                            [acc EXCEPT !.messages = Append(@, FetchError)])
  ELSE IF getSecretValue(secrets, items[i].id, fetchFails) = <<>>
  THEN collectKeyValuePairs(items, i + 1, secrets, fetchFails, acc)
  ELSE collectKeyValuePairs(items, i + 1, secrets, fetchFails,
         [acc EXCEPT !.keyValuePairs =
            Append(@, items[i].label \o <<EQ>>
                        \o getSecretValue(secrets, items[i].id, fetchFails))])

copyProjectSecretsCommand(item, secrets, listFails, fetchFails) ==
  IF ~(item.type = "project" /\ item.id # NoId) THEN UiQuiet
  ELSE LET acc == collectKeyValuePairs(getSecretsForProject(secrets, listFails), 1,
                                       secrets, fetchFails,
                                       [keyValuePairs |-> <<>>, messages |-> <<>>])
       IN IF acc.keyValuePairs = <<>> THEN [UiQuiet EXCEPT !.messages = acc.messages]
          ELSE [sent |-> <<>>, copied |-> join(acc.keyValuePairs, <<NL>>),
                messages |-> acc.messages \o
                  <<[kind |-> "info", text |-> "secrets copied to clipboard in key=value format",
                     count |-> Len(acc.keyValuePairs)]>>]

\* deleteSecretCommand without the confirmation test
deleteSecretCommand_unconfirmed(item, secrets, confirmation, deleteFails) ==
  IF ~(item.type = "secret" /\ item.id # NoId)
  THEN [secrets |-> secrets, calls |-> <<>>, refreshed |-> 0, messages |-> <<>>]
  ELSE [secrets |-> deleteSecret(secrets, item.id),
        calls |-> <<[op |-> "deleteSecret", id |-> item.id]>>,
        refreshed |-> 1,
        messages |-> <<[kind |-> "warning", modal |-> TRUE,
                        text |-> "Are you sure you want to delete the secret",
                        names |-> <<item.label>>]>>]

\* ---------------------------------------------- delete and clear commands
\* deleteSecretCommand: the modal warning, then on 'Delete' the SDK call.
\* The result holds the secrets afterwards, the SDK calls made, the number of
\* tree refreshes and the messages shown
deleteSecretCommand(item, secrets, confirmation, deleteFails) ==
  LET warning == [kind |-> "warning", modal |-> TRUE,
                  text |-> "Are you sure you want to delete the secret",
                  names |-> <<item.label>>]
  IN IF ~(item.type = "secret" /\ item.id # NoId)
     THEN [secrets |-> secrets, calls |-> <<>>, refreshed |-> 0, messages |-> <<>>]
     ELSE IF confirmation # "Delete"
     THEN [secrets |-> secrets, calls |-> <<>>, refreshed |-> 0, messages |-> <<warning>>]
     ELSE IF deleteFails
     THEN [secrets |-> secrets,
           calls |-> <<[op |-> "deleteSecret", id |-> item.id]>>,
           refreshed |-> 0,
           messages |-> <<warning, [kind |-> "error", text |-> "Failed to delete secret"]>>]
     ELSE [secrets |-> deleteSecret(secrets, item.id),
           calls |-> <<[op |-> "deleteSecret", id |-> item.id]>>,
           refreshed |-> 1,
           messages |-> <<warning, [kind |-> "info", text |-> "Secret deleted successfully",
                                    names |-> <<item.label>>]>>]

\* deleteProjectCommand
deleteProjectCommand(item, projects, confirmation, deleteFails) ==
  LET warning == [kind |-> "warning", modal |-> TRUE,
                  text |-> "Are you sure you want to delete the project",
                  names |-> <<item.label>>]
  IN IF ~(item.type = "project" /\ item.id # NoId)
     THEN [projects |-> projects, calls |-> <<>>, refreshed |-> 0, messages |-> <<>>]
     ELSE IF confirmation # "Delete"
     THEN [projects |-> projects, calls |-> <<>>, refreshed |-> 0, messages |-> <<warning>>]
     ELSE IF deleteFails
     THEN [projects |-> projects,
           calls |-> <<[op |-> "deleteProject", id |-> item.id]>>,
           refreshed |-> 0,
           messages |-> <<warning, [kind |-> "error", text |-> "Failed to delete project"]>>]
     ELSE [projects |-> projects \ {item.id},
           calls |-> <<[op |-> "deleteProject", id |-> item.id]>>,
           refreshed |-> 1,
           messages |-> <<warning, [kind |-> "info", text |-> "Project deleted successfully",
                                    names |-> <<item.label>>]>>]

\* context.secrets.delete(key)
secretsDelete(tokens, key) == SelectSeq(tokens, LAMBDA e : e.key # key)

\* clearTokensCommand that forgets the organization id
clearTokensCommand_keepsOrganizationId(tokens, confirmation, failAt) ==
  IF confirmation # "Yes, Clear Tokens" THEN [tokens |-> tokens, messages |-> <<>>]
  ELSE [tokens |-> secretsDelete(tokens, "bitwardenAccessToken"), messages |-> <<>>]

\* clearTokensCommand. failAt: the storage deletion that throws (1 or 2),
\* 0 when none does
clearTokensCommand(tokens, confirmation, failAt) ==
  LET warning == [kind |-> "warning", modal |-> TRUE,
                  text |-> "Are you sure you want to clear all stored Bitwarden tokens?"]
      failed == [kind |-> "error", text |-> "Failed to clear tokens"]
  IN IF confirmation # "Yes, Clear Tokens"
     THEN [tokens |-> tokens, messages |-> <<warning>>]
     ELSE IF failAt = 1 THEN [tokens |-> tokens, messages |-> <<warning, failed>>]
     ELSE IF failAt = 2
     THEN [tokens |-> secretsDelete(tokens, "bitwardenAccessToken"),
           messages |-> <<warning, failed>>]
     ELSE [tokens |-> secretsDelete(secretsDelete(tokens, "bitwardenAccessToken"),
                                    "bitwardenOrganizationId"),
           messages |-> <<warning, [kind |-> "info",
                                    text |-> "Bitwarden tokens cleared successfully"]>>]

\* ------------------------------------------------------------------ state
VARIABLES
  envStage,      \* position in the parse / format pipeline
  envContent,    \* text handed to parseEnvFile
  envParsed,     \* parseEnvFile(envContent)
  envData,       \* mapping handed to formatEnvFile
  envFormatted,  \* formatEnvFile(envData)
  envReparsed,   \* parseEnvFile(envFormatted)
  phase,         \* "ready" before the command runs, "done" after it
  file,          \* the .env file of the workspace: [exists, readable, text]
  secrets,       \* the secrets of the project held by Bitwarden
  last,          \* what the command was given and what it did
  terminal,      \* the texts sent to the terminal, in order
  clipboard,     \* the text on the clipboard
  tokens,        \* the extension's secret storage (context.secrets)
  projects,      \* the ids of the projects held by Bitwarden
  sdkCalls,      \* the calls made to the SDK service, in order
  refreshes,     \* how many times the tree was refreshed
  welcomeSdk,    \* the SDK service owned by the welcome view
  screen,        \* the page the welcome view shows
  app,           \* ApplicationState: [hasData, treeView, provider]
  calls,         \* the updateView calls in flight, each with its position
  ran,           \* the command run that is looked at, and what it did
  service,       \* one BitwardenSdkService: [isAuthenticated, organizationId, session]
  pending,       \* the calls on the service that wait for the native client
  wire,          \* the last command written to the native client
  ended,         \* how the last call on the service that returned ended
  remote,        \* the secrets of the project as Bitwarden holds them
  cache,         \* BitwardenFileSystemProvider._cache
  fsLast,        \* the last file operation and the one before it
  passed,        \* how many events were handed to _fireSoon
  buffer,        \* _bufferedEvents
  timer,         \* whether the timer of _fireSoon is running
  emitted        \* the batches fired to the listeners, by event number

envVars == <<envStage, envContent, envParsed, envData, envFormatted, envReparsed>>

cmdVars == <<phase, file, secrets, last>>

uiVars == <<terminal, clipboard, tokens, projects, sdkCalls, refreshes>>

appVars == <<welcomeSdk, screen, app, calls, ran>>

svcVars == <<service, pending, wire, ended>>

fsVars == <<remote, cache, fsLast, passed, buffer, timer, emitted>>

restVars == <<appVars, svcVars, fsVars>>

vars == <<envVars, cmdVars, uiVars, restVars>>

\* the variables of the other part of the model, at rest
EnvIdle ==
  /\ envStage = "idle"
  /\ envContent = <<>>
  /\ envParsed = <<>>
  /\ envData = <<>>
  /\ envFormatted = <<>>
  /\ envReparsed = <<>>

CmdIdle ==
  /\ phase = "idle"
  /\ file = [exists |-> FALSE, readable |-> FALSE, text |-> <<>>]
  /\ secrets = <<>>
  /\ last = [cmd |-> "none"]

NoText == <<>>

UiIdle ==
  /\ terminal = <<>>
  /\ clipboard = NoText
  /\ tokens = <<>>
  /\ projects = {}
  /\ sdkCalls = <<>>
  /\ refreshes = 0

\* the welcome view has shown nothing yet
NoScreen ==
  [page |-> "none", hasData |-> FALSE, hasToken |-> FALSE, hasOrg |-> FALSE,
   outcome |-> "notTried", stale |-> FALSE]

\* a BitwardenSdkService as its constructor leaves it
NewSdkService == [isAuthenticated |-> FALSE, organizationId |-> NoText, session |-> NoText]

\* ApplicationState holds no tree provider
NoProvider == [exists |-> FALSE, sdk |-> NewSdkService]

AppIdle ==
  /\ welcomeSdk = NewSdkService
  /\ screen = NoScreen
  /\ app = [hasData |-> FALSE, treeView |-> FALSE, provider |-> NoProvider]
  /\ calls = EmptyBag
  /\ ran = [command |-> "none"]

NoCommand == [op |-> "none", sdk |-> NewSdkService]

NoOutcome ==
  [op |-> "none", error |-> "none", before |-> NewSdkService, after |-> NewSdkService]

SvcIdle ==
  /\ service = NewSdkService
  /\ pending = EmptyBag
  /\ wire = NoCommand
  /\ ended = NoOutcome

NoDoc == [id |-> "", key |-> "", value |-> ""]

NoOperation == [op |-> "none", key |-> "", ok |-> TRUE, doc |-> NoDoc, saved |-> NoDoc]

FsIdle ==
  /\ remote = {}
  /\ cache = {}
  /\ fsLast = NoOperation
  /\ passed = 0
  /\ buffer = <<>>
  /\ timer = 0
  /\ emitted = <<>>

RestIdle == AppIdle /\ SvcIdle /\ FsIdle

\* ------------------------------------------------ parse / format pipeline
\* characters held by the keys and values of an object
RECURSIVE ObjChars(_)
ObjChars(o) ==
  IF o = <<>> THEN 0
  ELSE Len(o[1].key) + Len(o[1].value) + ObjChars(Tail(o))

EnvInit ==
  /\ CmdIdle
  /\ UiIdle
  /\ RestIdle
  /\ envParsed = <<>>
  /\ envFormatted = <<>>
  /\ envReparsed = <<>>
  /\ envData = <<>>
  /\ \/ /\ envStage = "text"
        /\ envContent \in StrsUpTo(MaxTextLen)
     \/ /\ envStage = "data"
        /\ envContent = <<>>

\* the caller builds the object handed to formatEnvFile one assignment at a time
AssignEntry ==
  /\ envStage = "data"
  /\ Len(envData) < MaxDataEntries
  /\ \E k \in StrsUpTo(MaxDataChars - ObjChars(envData)) :
       \E v \in StrsUpTo(MaxDataChars - ObjChars(envData) - Len(k)) :
         /\ ~ObjHas(envData, k)
         /\ envData' = ObjSet(envData, k, v)
  /\ UNCHANGED <<envStage, envContent, envParsed, envFormatted, envReparsed, cmdVars, uiVars, restVars>>

ParseText ==
  /\ envStage = "text"
  /\ envParsed' = parseEnvFile(envContent)
  /\ envData' = envParsed'
  /\ envStage' = "parsed"
  /\ UNCHANGED <<envContent, envFormatted, envReparsed, cmdVars, uiVars, restVars>>

FormatData ==
  /\ envStage \in {"parsed", "data"}
  /\ envFormatted' = formatEnvFile(envData)
  /\ envStage' = IF envStage = "parsed" THEN "parsedFormatted" ELSE "dataFormatted"
  /\ UNCHANGED <<envContent, envParsed, envData, envReparsed, cmdVars, uiVars, restVars>>

ParseFormatted ==
  /\ envStage \in {"parsedFormatted", "dataFormatted"}
  /\ envReparsed' = parseEnvFile(envFormatted)
  /\ envStage' = IF envStage = "parsedFormatted" THEN "parsedReparsed" ELSE "dataReparsed"
  /\ UNCHANGED <<envContent, envParsed, envData, envFormatted, cmdVars, uiVars, restVars>>

EnvNext == AssignEntry \/ ParseText \/ FormatData \/ ParseFormatted

SpecEnv == EnvInit /\ [][EnvNext]_vars

\* --------------------------------------------------- the export commands
\* lines a .env file of the workspace is made of before the command runs
FileLines ==
  { <<"a", EQ, "x">>, <<"1", EQ, "x">>, <<HASH, "c">> }

\* secrets the project may hold before the command runs, as <<key, value>>
SecretChoices ==
  { <<<<"a">>, <<"x">>>>, <<<<"a">>, <<"y">>>>, <<<<"1">>, <<"y">>>>, <<<<"b">>, <<>>>> }

\* no file, a file that can be read, or a file that cannot: the commands never
\* see the text of the last kind, one line of it is enough
InitialFiles ==
  {[exists |-> FALSE, readable |-> FALSE, text |-> <<>>]}
  \cup {[exists |-> TRUE, readable |-> TRUE, text |-> join(ls, <<NL>>)] :
          ls \in UNION {[1..n -> FileLines] : n \in 0..MaxFileLines}}
  \cup {[exists |-> TRUE, readable |-> FALSE, text |-> join(ls, <<NL>>)] :
          ls \in UNION {[1..n -> FileLines] : n \in 0..1}}

InitialSecrets ==
  {[i \in 1..Len(kv) |-> [id |-> i, key |-> kv[i][1], value |-> kv[i][2]]] :
     kv \in UNION {[1..n -> SecretChoices] : n \in 0..MaxSecrets}}

CmdInit ==
  /\ EnvIdle
  /\ UiIdle
  /\ RestIdle
  /\ phase = "ready"
  /\ file \in InitialFiles
  /\ secrets \in InitialSecrets
  /\ last = [cmd |-> "none"]

SecretIds == {secrets[i].id : i \in 1..Len(secrets)}

\* the fetches of secret values that fail during one export: none, or the one
\* of a single secret
FetchFailures == {{}} \cup {{id} : id \in SecretIds}

BulkChoices == {"Overwrite all conflicts", "Choose for each conflict", "Skip conflicts", Dismissed}

\* the prompts the user answers during an export, given what they can see:
\* no bulk prompt without conflict, per-key prompts only after 'Choose for
\* each conflict'
ExportPrompts(conflicts, perKeyAnswers) ==
  IF conflicts = <<>>
  THEN {[conflictAction |-> "none", answers |-> <<>>]}
  ELSE {[conflictAction |-> c, answers |-> <<>>] :
          c \in BulkChoices \ {"Choose for each conflict"}}
       \cup {[conflictAction |-> "Choose for each conflict", answers |-> a] :
               a \in [1..Len(conflicts) -> perKeyAnswers]}

RecordExport(via, in, out) ==
  /\ phase' = "done"
  /\ file' = out.file
  /\ secrets' = secrets
  /\ last' = [cmd |-> "export", via |-> via, in |-> in,
              fileBefore |-> file, secretsBefore |-> secrets,
              secretData |-> out.secretData, readTried |-> out.readTried,
              wrote |-> out.wrote, finalContent |-> out.finalContent,
              added |-> out.added, updated |-> out.updated, total |-> out.total,
              messages |-> out.messages]
  /\ UNCHANGED <<envVars, uiVars, restVars>>

\* the secret set an export would collect
secretDataOf(listFails, fetchFails) ==
  collectSecretData(getSecretsForProject(secrets, listFails), 1, secrets, fetchFails, <<>>)

\* the user runs "Export project secrets" (revision with writeSecretsToFile)
ExportViaWriteSecretsToFile ==
  /\ phase = "ready"
  /\ \/ \E in \in {[selection |-> Dismissed, listFails |-> FALSE, fetchFails |-> {},
                    conflictAction |-> "none", answers |-> <<>>]} :
          \E out \in {exportViaWriteSecretsToFile(file, secrets, in)} :
            RecordExport("writeSecretsToFile", in, out)
     \/ \E listFails \in BOOLEAN, fetchFails \in FetchFailures :
          /\ listFails => fetchFails = {}
          /\ \E conflicts \in {conflictsOf(readExisting(file), secretDataOf(listFails, fetchFails))} :
               \E pr \in ExportPrompts(conflicts, {"Overwrite", "Keep existing", Dismissed}) :
                 /\ \A i, j \in 1..Len(pr.answers) :
                      (i < j /\ pr.answers[i] = Dismissed) => pr.answers[j] = Dismissed
                 /\ \E in \in {[selection |-> IF file.exists THEN "update" ELSE "create",
                                listFails |-> listFails, fetchFails |-> fetchFails,
                                conflictAction |-> pr.conflictAction,
                                answers |-> pr.answers]} :
                      \E out \in {exportViaWriteSecretsToFile(file, secrets, in)} :
                        RecordExport("writeSecretsToFile", in, out)

\* the user runs "Export project secrets" (revision with handleEnvFileExport)
ExportViaHandleEnvFileExport ==
  /\ phase = "ready"
  /\ \E listFails \in BOOLEAN, fetchFails \in FetchFailures,
        selection \in {"update", "create", Dismissed} :
       /\ listFails => fetchFails = {}
       /\ selection = "update" => file.exists
       /\ \E conflicts \in {IF selection = "update"
                            THEN conflictsOf(readExisting(file),
                                             secretDataOf(listFails, fetchFails))
                            ELSE <<>>} :
            \E pr \in ExportPrompts(conflicts, {"Yes", "No", Dismissed}) :
              \E in \in {[selection |-> selection,
                          listFails |-> listFails, fetchFails |-> fetchFails,
                          conflictAction |-> pr.conflictAction, answers |-> pr.answers]} :
                \E out \in {exportViaHandleEnvFileExport(file, secrets, in)} :
                  RecordExport("handleEnvFileExport", in, out)

ImportChoices == {"Skip this secret", "Overwrite this secret", "Cancel import", Dismissed}

Range(seq) == {seq[i] : i \in 1..Len(seq)}

RecordImport(in, out) ==
  /\ phase' = "done"
  /\ file' = file
  /\ secrets' = out.secrets
  /\ last' = [cmd |-> "import", in |-> in,
              fileBefore |-> file, secretsBefore |-> secrets,
              envData |-> out.envData, conflicts |-> out.conflicts,
              keysToImport |-> out.keysToImport,
              deleteTried |-> out.deleteTried,
              created |-> out.created,
              cancelled |-> out.cancelled,
              successCount |-> out.successCount,
              errorCount |-> out.errorCount,
              refreshed |-> out.refreshed,
              messages |-> out.messages]
  /\ sdkCalls' = sdkCalls \o out.calls
  /\ refreshes' = refreshes + (IF out.refreshed THEN 1 ELSE 0)
  /\ UNCHANGED <<envVars, restVars, terminal, clipboard, tokens, projects>>

\* the user runs "Import secrets from .env file" on the project. Only the
\* calls the command makes can fail: at most one of the deletions it tries,
\* and any of the creations.
ImportSecretsFromEnv ==
  /\ phase = "ready"
  /\ \E selection \in {"selected", Dismissed}, listFails \in BOOLEAN :
       /\ (~file.exists \/ readFails(file)) => (selection = "selected" /\ ~listFails)
       /\ selection = Dismissed => ~listFails
       /\ \E fileData \in {IF readFails(file) \/ selection = Dismissed THEN <<>>
                          ELSE parseEnvFile(file.text)} :
            \E conflicts \in {importConflicts(fileData, getSecretsForProject(secrets, listFails))} :
              \E answers \in [1..Len(conflicts) -> ImportChoices] :
                /\ \A i, j \in 1..Len(answers) :
                     (i < j /\ answers[i] \in {Dismissed, "Cancel import"})
                       => answers[j] = Dismissed
                /\ \E dry \in {importSecretsFromEnvCommand(file, secrets,
                                 [selection |-> selection, listFails |-> listFails,
                                  answers |-> answers, deleteFails |-> {},
                                  createFails |-> {}])} :
                     \E deleteFails \in {{}} \cup {{id} : id \in Range(dry.deleteTried)},
                        createFails \in SUBSET (IF dry.refreshed THEN Range(dry.keysToImport)
                                                ELSE {}) :
                       \E in \in {[selection |-> selection, listFails |-> listFails,
                                   answers |-> answers, deleteFails |-> deleteFails,
                                   createFails |-> createFails]} :
                         \E out \in {importSecretsFromEnvCommand(file, secrets, in)} :
                           RecordImport(in, out)

\* the user runs the same export once more on the file the first run wrote:
\* same revision, same secret set, 'Overwrite all conflicts' at the bulk
\* prompt when there is one
ExportAgain ==
  /\ phase = "done"
  /\ last.cmd = "export"
  /\ last.wrote
  /\ last.in.conflictAction \in {"Overwrite all conflicts", "none"}
  /\ \E conflicts \in {conflictsOf(readExisting(file), last.secretData)} :
       \E in \in {[selection |-> "update",
                   listFails |-> last.in.listFails, fetchFails |-> last.in.fetchFails,
                   conflictAction |-> IF conflicts = <<>> THEN "none"
                                      ELSE "Overwrite all conflicts",
                   answers |-> <<>>]} :
         \E out \in {IF last.via = "writeSecretsToFile"
                     THEN exportViaWriteSecretsToFile(file, secrets, in)
                     ELSE exportViaHandleEnvFileExport(file, secrets, in)} :
           /\ phase' = "again"
           /\ file' = out.file
           /\ secrets' = secrets
           /\ last' = [cmd |-> "exportAgain", via |-> last.via, in |-> in,
                       first |-> last, fileBefore |-> file,
                       secretData |-> out.secretData, wrote |-> out.wrote,
                       finalContent |-> out.finalContent, messages |-> out.messages]
           /\ UNCHANGED <<envVars, uiVars, restVars>>

CmdNext ==
  \/ ExportViaWriteSecretsToFile
  \/ ExportViaHandleEnvFileExport
  \/ ExportAgain
  \/ ImportSecretsFromEnv

Spec == CmdInit /\ [][CmdNext]_vars

\* ----------------------------------------- the commands of the tree view
\* secrets the project may hold before a tree command runs: an empty value
\* and a value with a double quote are among them
UiSecretChoices ==
  { <<<<"a">>, <<"x">>>>, <<<<"a">>, <<>>>>, <<<<"b">>, <<"y">>>>, <<<<"b">>, <<"x", DQ>>>> }

UiSecrets ==
  {[i \in 1..Len(kv) |-> [id |-> i, key |-> kv[i][1], value |-> kv[i][2]]] :
     kv \in UNION {[1..n -> UiSecretChoices] : n \in 0..MaxSecrets}}

\* the id and the label of the project of the model
ProjectId == 100

ProjectName == <<"p">>

\* what the secret storage may hold before a command runs
InitialTokens ==
  { <<>>,
    <<[key |-> "bitwardenAccessToken", value |-> "token"]>>,
    <<[key |-> "bitwardenOrganizationId", value |-> "org"]>>,
    <<[key |-> "bitwardenAccessToken", value |-> "token"],
      [key |-> "bitwardenOrganizationId", value |-> "org"]>> }

UiInit ==
  /\ EnvIdle
  /\ RestIdle
  /\ phase = "ready"
  /\ file = [exists |-> FALSE, readable |-> FALSE, text |-> <<>>]
  /\ secrets \in UiSecrets
  /\ last = [cmd |-> "none"]
  /\ terminal = <<>>
  /\ clipboard = NoText
  /\ tokens \in InitialTokens
  /\ projects = {ProjectId}
  /\ sdkCalls = <<>>
  /\ refreshes = 0

\* the tree items a command can be invoked on: the secrets of the project
\* (or the placeholder), the project, and a project item without id
UiItems ==
  Range(getSecretsForProject(secrets, FALSE))
    \cup {[label |-> ProjectName, type |-> "project", id |-> ProjectId],
          [label |-> ProjectName, type |-> "project", id |-> NoId]}

\* the platform and the active terminal when a command runs
Envs ==
  {[platform |-> "linux", activeTerminal |-> NoTerminal, createdBecomesActive |-> b] :
     b \in BOOLEAN}
  \cup {[platform |-> "win32", activeTerminal |-> NoTerminal, createdBecomesActive |-> b] :
          b \in BOOLEAN}
  \cup {[platform |-> "win32", activeTerminal |-> t, createdBecomesActive |-> FALSE] :
          t \in {<<"U", "b", "u", "n", "t", "u">>, <<"C", "m", "d">>, <<"p", "w", "s", "h">>}}

\* the stores that differ from the project's secrets in the value of at most
\* one secret that has one
Twins ==
  {secrets} \cup
  {[secrets EXCEPT ![i].value = v] :
     i \in {j \in 1..Len(secrets) : secrets[j].value # <<>>},
     v \in {<<"x">>, <<"y">>, <<"x", DQ>>}}

\* a command that reads the secrets has run; twin is the same run on a store
\* that differs only in the secret values
RecordUi(cmd, in, out, twin) ==
  /\ phase' = "done"
  /\ terminal' = terminal \o out.sent
  /\ clipboard' = IF out.copied = Undefined THEN clipboard ELSE out.copied
  /\ last' = [cmd |-> cmd, in |-> in, secretsBefore |-> secrets,
              sent |-> out.sent, copied |-> out.copied,
              messages |-> out.messages, twinMessages |-> twin.messages]
  /\ UNCHANGED <<envVars, restVars, file, secrets, tokens, projects, sdkCalls, refreshes>>

\* one failing fetch at most, as in the export
UiInputs ==
  {[item |-> item, listFails |-> listFails, fetchFails |-> fetchFails, env |-> env,
    picked |-> picked] :
     item \in UiItems, listFails \in BOOLEAN, fetchFails \in FetchFailures, env \in Envs,
     picked \in BOOLEAN}

LoadSecretToEnv ==
  /\ phase = "ready"
  /\ \E in \in UiInputs, tw \in Twins :
       /\ ~in.listFails /\ in.picked
       /\ RecordUi("loadSecretToEnv", in,
                   loadSecretToEnvCommand(in.item, secrets, in.fetchFails, in.env),
                   loadSecretToEnvCommand(in.item, tw, in.fetchFails, in.env))

LoadProjectSecretsToEnv ==
  /\ phase = "ready"
  /\ \E in \in UiInputs, tw \in Twins :
       /\ in.picked
       /\ in.listFails => in.fetchFails = {}
       /\ RecordUi("loadProjectSecretsToEnv", in,
            loadProjectSecretsToEnvCommand(in.item, secrets, in.listFails, in.fetchFails, in.env),
            loadProjectSecretsToEnvCommand(in.item, tw, in.listFails, in.fetchFails, in.env))

LoadSecretToEnvViaClipboard ==
  /\ phase = "ready"
  /\ \E in \in UiInputs, tw \in Twins :
       /\ ~in.listFails
       /\ RecordUi("loadSecretToEnvViaClipboard", in,
            loadSecretToEnvViaClipboard(in.item, secrets, in.fetchFails, in.env, in.picked),
            loadSecretToEnvViaClipboard(in.item, tw, in.fetchFails, in.env, in.picked))

LoadProjectSecretsToEnvViaClipboard ==
  /\ phase = "ready"
  /\ \E in \in UiInputs, tw \in Twins :
       /\ in.listFails => in.fetchFails = {}
       /\ RecordUi("loadProjectSecretsToEnvViaClipboard", in,
            loadProjectSecretsToEnvViaClipboard(in.item, secrets, in.listFails,
                                                in.fetchFails, in.env, in.picked),
            loadProjectSecretsToEnvViaClipboard(in.item, tw, in.listFails,
                                                in.fetchFails, in.env, in.picked))

\* the copy commands do not look at the terminal
CopyInputs == {in \in UiInputs : in.env.platform = "linux" /\ in.env.createdBecomesActive /\ in.picked}

CopySecret ==
  /\ phase = "ready"
  /\ \E in \in CopyInputs, tw \in Twins :
       /\ ~in.listFails
       /\ RecordUi("copySecret", in,
                   copySecretCommand(in.item, secrets, in.fetchFails),
                   copySecretCommand(in.item, tw, in.fetchFails))

CopySecretValue ==
  /\ phase = "ready"
  /\ \E in \in CopyInputs, tw \in Twins :
       /\ ~in.listFails
       /\ RecordUi("copySecretValue", in,
                   copySecretValueCommand(in.item, secrets, in.fetchFails),
                   copySecretValueCommand(in.item, tw, in.fetchFails))

CopyProjectSecrets ==
  /\ phase = "ready"
  /\ \E in \in CopyInputs, tw \in Twins :
       /\ in.listFails => in.fetchFails = {}
       /\ RecordUi("copyProjectSecrets", in,
                   copyProjectSecretsCommand(in.item, secrets, in.listFails, in.fetchFails),
                   copyProjectSecretsCommand(in.item, tw, in.listFails, in.fetchFails))

\* what the user answers to a modal warning
Confirmations == {"Delete", Dismissed}

DeleteSecret ==
  /\ phase = "ready"
  /\ \E item \in UiItems, confirmation \in Confirmations, deleteFails \in BOOLEAN :
       /\ deleteFails => (confirmation = "Delete" /\ item.type = "secret" /\ item.id # NoId)
       /\ \E out \in {deleteSecretCommand(item, secrets, confirmation, deleteFails)} :
            /\ phase' = "done"
            /\ secrets' = out.secrets
            /\ sdkCalls' = sdkCalls \o out.calls
            /\ refreshes' = refreshes + out.refreshed
            /\ last' = [cmd |-> "deleteSecret",
                        in |-> [item |-> item, confirmation |-> confirmation,
                                deleteFails |-> deleteFails],
                        secretsBefore |-> secrets, messages |-> out.messages]
            /\ UNCHANGED <<envVars, restVars, file, terminal, clipboard, tokens, projects>>

DeleteProject ==
  /\ phase = "ready"
  /\ \E item \in UiItems, confirmation \in Confirmations, deleteFails \in BOOLEAN :
       /\ deleteFails => (confirmation = "Delete" /\ item.type = "project" /\ item.id # NoId)
       /\ \E out \in {deleteProjectCommand(item, projects, confirmation, deleteFails)} :
            /\ phase' = "done"
            /\ projects' = out.projects
            /\ sdkCalls' = sdkCalls \o out.calls
            /\ refreshes' = refreshes + out.refreshed
            /\ last' = [cmd |-> "deleteProject",
                        in |-> [item |-> item, confirmation |-> confirmation,
                                deleteFails |-> deleteFails],
                        secretsBefore |-> secrets, messages |-> out.messages]
            /\ UNCHANGED <<envVars, restVars, file, secrets, terminal, clipboard, tokens>>

ClearTokens ==
  /\ phase = "ready"
  /\ \E confirmation \in {"Yes, Clear Tokens", "Cancel", Dismissed}, failAt \in {0, 1, 2} :
       /\ failAt # 0 => confirmation = "Yes, Clear Tokens"
       /\ \E out \in {clearTokensCommand(tokens, confirmation, failAt)} :
            /\ phase' = "done"
            /\ tokens' = out.tokens
            /\ last' = [cmd |-> "clearTokens",
                        in |-> [confirmation |-> confirmation, failAt |-> failAt],
                        tokensBefore |-> tokens, messages |-> out.messages]
            /\ UNCHANGED <<envVars, restVars, file, secrets, terminal, clipboard, projects,
                           sdkCalls, refreshes>>

UiNext ==
  \/ LoadSecretToEnv
  \/ LoadProjectSecretsToEnv
  \/ LoadSecretToEnvViaClipboard
  \/ LoadProjectSecretsToEnvViaClipboard
  \/ CopySecret
  \/ CopySecretValue
  \/ CopyProjectSecrets
  \/ DeleteSecret
  \/ DeleteProject
  \/ ClearTokens

SpecUi == UiInit /\ [][UiNext]_vars

\* =================================================================== claims
\* ------------------------------------------- text read line by line, stated
\* without the loops of the implementation
Breaks(t) == {0, Len(t) + 1} \cup {i \in 1..Len(t) : t[i] = NL}

\* <<b, e>>: a line of t lies strictly between the consecutive breaks b and e
LineSpans(t) ==
  {sp \in Breaks(t) \X Breaks(t) :
     sp[1] < sp[2] /\ \A i \in (sp[1] + 1)..(sp[2] - 1) : t[i] # NL}

LineAt(t, sp) == SubSeq(t, sp[1] + 1, sp[2] - 1)

Inked(s) == {i \in 1..Len(s) : ~IsWhiteSpace(s[i])}

Min(S) == CHOOSE x \in S : \A y \in S : x <= y

Max(S) == CHOOSE x \in S : \A y \in S : x >= y

\* s without its leading and trailing white space
Stripped(s) == IF Inked(s) = {} THEN <<>> ELSE SubSeq(s, Min(Inked(s)), Max(Inked(s)))

\* 1-based position of the first '=' of s, 0 when there is none
FirstEq(s) ==
  IF \E i \in 1..Len(s) : s[i] = EQ THEN Min({i \in 1..Len(s) : s[i] = EQ}) ELSE 0

Contributes(line) ==
  LET t == Stripped(line) IN t # <<>> /\ t[1] # HASH /\ FirstEq(t) > 1

EntryKey(line) ==
  LET t == Stripped(line) IN Stripped(SubSeq(t, 1, FirstEq(t) - 1))

EntryValue(line) ==
  LET t == Stripped(line) IN Stripped(SubSeq(t, FirstEq(t) + 1, Len(t)))

IsMapping(o) ==
  /\ o \in Seq([key : Seq(Alphabet), value : Seq(Alphabet)])
  /\ \A i, j \in 1..Len(o) : o[i].key = o[j].key => i = j

TextParsed == envStage \in {"parsed", "parsedFormatted", "parsedReparsed"}

C9_LastOccurrenceWins ==
  TextParsed =>
    \A i \in 1..Len(envParsed) :
      LET spans == {sp \in LineSpans(envContent) :
                      /\ Contributes(LineAt(envContent, sp))
                      /\ EntryKey(LineAt(envContent, sp)) = envParsed[i].key}
          lastSpan == CHOOSE sp \in spans : \A other \in spans : other[1] <= sp[1]
      IN /\ spans # {}
         /\ envParsed[i].value = EntryValue(LineAt(envContent, lastSpan))
         /\ Cardinality({j \in 1..Len(envParsed) : envParsed[j].key = envParsed[i].key}) = 1

\* a parsed text in which one key occurs on two valid lines with two values
C9_Witness ==
  /\ TextParsed
  /\ \E sp1, sp2 \in LineSpans(envContent) :
       /\ sp1[1] < sp2[1]
       /\ Contributes(LineAt(envContent, sp1))
       /\ Contributes(LineAt(envContent, sp2))
       /\ EntryKey(LineAt(envContent, sp1)) = EntryKey(LineAt(envContent, sp2))
       /\ EntryValue(LineAt(envContent, sp1)) # EntryValue(LineAt(envContent, sp2))

Has(s, c) == \E i \in 1..Len(s) : s[i] = c

\* the supported subset as the claim words it
WellFormedData(o) ==
  \A i \in 1..Len(o) :
    /\ o[i].key # <<>>
    /\ o[i].key = Stripped(o[i].key)
    /\ ~Has(o[i].key, EQ)
    /\ o[i].key[1] # HASH
    /\ o[i].value = Stripped(o[i].value)
    /\ ~Has(o[i].value, NL)

AllLinesWellFormed(t) == \A sp \in LineSpans(t) : Contributes(LineAt(t, sp))

\* C10 as stated: every mapping with non-empty, trimmed keys without '=' and
\* not starting with '#', and trimmed values without newline, survives
\* formatEnvFile then parseEnvFile.
C10_Original ==
  /\ (envStage = "dataReparsed" /\ WellFormedData(envData))
       => ObjPairs(envReparsed) = ObjPairs(envData)
  /\ (envStage = "parsedReparsed" /\ AllLinesWellFormed(envContent))
       => ObjPairs(envReparsed) = ObjPairs(envParsed)

\* C10 amended: the keys must also contain no newline. Then
\* parseEnvFile(formatEnvFile(m)) equals m as a key/value set, and a text of
\* well-formed key=value lines parses to a mapping that parsing its formatted
\* form gives back.
C10_RoundTrip ==
  /\ (/\ envStage = "dataReparsed"
      /\ WellFormedData(envData)
      /\ \A i \in 1..Len(envData) : ~Has(envData[i].key, NL))
       => ObjPairs(envReparsed) = ObjPairs(envData)
  /\ (envStage = "parsedReparsed" /\ AllLinesWellFormed(envContent))
       => ObjPairs(envReparsed) = ObjPairs(envParsed)

\* a well-formed mapping of two entries went through format and parse
C10_Witness ==
  /\ envStage = "dataReparsed"
  /\ Len(envData) = 2
  /\ WellFormedData(envData)
  /\ \A i \in 1..Len(envData) : ~Has(envData[i].key, NL)
  /\ envData[1].value # <<>>

\* ------------------------------------------------------ export and import
ExportDone == last.cmd = "export"

\* the export read the target file and parsed it
ExportParsed == ExportDone /\ last.readTried /\ ~readFails(last.fileBefore)

\* what the target file held when the command started
OnDisk == IF last.fileBefore.exists THEN parseEnvFile(last.fileBefore.text) ELSE <<>>

Holds(o, k, v) == <<k, v>> \in ObjPairs(o)

AbsentFrom(disk) ==
  {k \in {last.secretData[i].key : i \in 1..Len(last.secretData)} : ~ObjHas(disk, k)}

AbsentKeys == AbsentFrom(OnDisk)

\* C2: every key of the secret set that the existing file does not have is
\* new: it is written with the incoming value under every conflict policy,
\* and counted as added.
C2_NewKeysWritten ==
  (ExportDone /\ last.wrote) =>
    \A absent \in {AbsentKeys}, after \in {parseEnvFile(file.text)} :
      /\ \A k \in absent :
           /\ Holds(last.finalContent, k, ObjGet(last.secretData, k))
           /\ Holds(after, k, ObjGet(last.secretData, k))
      /\ ExportParsed => last.added = Cardinality(absent)

\* an export that skipped a conflict still wrote a new key
C2_Witness ==
  /\ ExportParsed
  /\ last.wrote
  /\ last.in.conflictAction = "Skip conflicts"
  /\ AbsentKeys # {}

\* the keys of the secret set that the mapping disk has, in the order the
\* prompts follow
ConflictsWith(disk) == SelectSeq(ObjKeys(last.secretData), LAMBDA k : ObjHas(disk, k))

ConflictKeys == ConflictsWith(OnDisk)

Overwrites(answer) == answer \in {"Overwrite", "Yes"}

Keeps(answer) == answer \in {"Keep existing", "No"}

\* C3: for every key present both in the existing file and in the secret set
\* the value written follows the resolution only: the incoming value with
\* 'Overwrite all conflicts', the existing value with 'Skip conflicts', and
\* with 'Choose for each conflict' the incoming value for the keys answered
\* Overwrite and the existing value for the keys answered Keep.
C3_ConflictsFollowResolution ==
  (ExportParsed /\ last.wrote) =>
    \A disk \in {OnDisk}, after \in {parseEnvFile(file.text)} :
      \A keys \in {ConflictsWith(disk)} :
        \A i \in 1..Len(keys) :
          LET k == keys[i]
              incoming == ObjGet(last.secretData, k)
              existing == ObjGet(disk, k)
              WrittenIs(v) == Holds(last.finalContent, k, v) /\ Holds(after, k, v)
          IN /\ last.in.conflictAction = "Overwrite all conflicts" => WrittenIs(incoming)
             /\ last.in.conflictAction = "Skip conflicts" => WrittenIs(existing)
             /\ last.in.conflictAction = "Choose for each conflict" =>
                  /\ Overwrites(last.in.answers[i]) => WrittenIs(incoming)
                  /\ Keeps(last.in.answers[i]) => WrittenIs(existing)

\* two conflicts with differing values, the first answered Overwrite and the
\* second Keep
C3_Witness ==
  /\ ExportParsed
  /\ last.wrote
  /\ last.in.conflictAction = "Choose for each conflict"
  /\ Len(ConflictKeys) = 2
  /\ Overwrites(last.in.answers[1])
  /\ Keeps(last.in.answers[2])
  /\ \A i \in 1..2 : ObjGet(last.secretData, ConflictKeys[i]) # ObjGet(OnDisk, ConflictKeys[i])

\* C4: when the user dismisses the bulk prompt or any per-key prompt of an
\* export, nothing is written and the target file keeps its content.
C4_CancelAbortsExport ==
  (/\ ExportDone
   /\ \/ last.in.conflictAction = Dismissed
      \/ \E i \in 1..Len(last.in.answers) : last.in.answers[i] = Dismissed)
    => (~last.wrote /\ file = last.fileBefore)

\* C5: an import that the user cancels at a conflict prompt leaves the
\* secrets of the project as they were: none deleted, none created.
C5_CancelledImportNoEffect ==
  (last.cmd = "import" /\ last.cancelled) => secrets = last.secretsBefore

\* C6: when the existing file chosen for the export cannot be read, the user
\* is shown the failure and the file is not written.
C6_UnreadableFileAborts ==
  (/\ ExportDone
   /\ last.readTried
   /\ last.fileBefore.exists
   /\ ~last.fileBefore.readable)
    => /\ ~last.wrote
       /\ file = last.fileBefore
       /\ \E i \in 1..Len(last.messages) : last.messages[i].kind = "error"

\* the conflicting keys the resolution replaced by the incoming value
ReplacedKeys ==
  {i \in 1..Len(ConflictKeys) :
     \/ last.in.conflictAction = "Overwrite all conflicts"
     \/ /\ last.in.conflictAction = "Choose for each conflict"
        /\ Overwrites(last.in.answers[i])}

\* C7: the report of an export counts added = new keys, updated = conflicting
\* keys whose value was replaced by the incoming one, total = keys written;
\* so updated is 0 when every conflict is skipped or kept.
C7_ReportCounts ==
  (ExportParsed /\ last.wrote) =>
    /\ last.added = Cardinality(AbsentKeys)
    /\ last.updated = Cardinality(ReplacedKeys)
    /\ last.via = "writeSecretsToFile" => last.total = Len(last.finalContent)

\* C11: export with 'Overwrite all conflicts' is idempotent. When the same
\* secret set is exported a second time to the file the first export wrote,
\* the file holds the same key/value mapping as after the first export.
C11_OverwriteAllIdempotent ==
  last.cmd = "exportAgain" =>
    /\ last.wrote
    /\ ObjPairs(parseEnvFile(file.text)) = ObjPairs(parseEnvFile(last.fileBefore.text))

\* both runs overwrote a conflict, the first one changing a value, in a file
\* that also holds an unrelated key
C11_Witness ==
  /\ last.cmd = "exportAgain"
  /\ last.first.in.conflictAction = "Overwrite all conflicts"
  /\ last.in.conflictAction = "Overwrite all conflicts"
  /\ ObjPairs(parseEnvFile(last.first.fileBefore.text))
       # ObjPairs(parseEnvFile(last.fileBefore.text))
  /\ \E i \in 1..Len(last.finalContent) :
       ~ObjHas(last.secretData, last.finalContent[i].key)

\* ------------------------------------------------- commands of the tree
\* the command ran on an item of the type it handles, with an id
OnMatchingItem ==
  /\ last.in.item.id # NoId
  /\ last.in.item.type = (IF last.cmd = "deleteSecret" THEN "secret" ELSE "project")

\* C12: deleteSecretCommand and deleteProjectCommand call the SDK only after
\* the user answered 'Delete' to the modal warning. When the prompt is
\* dismissed, or the item is not of the matching type or has no id, no SDK
\* call is made, the tree is not refreshed and nothing is deleted; and every
\* SDK call made is a delete of the item after a 'Delete' answer.
C12_DeleteOnlyAfterConfirm ==
  last.cmd \in {"deleteSecret", "deleteProject"} =>
    /\ (last.in.confirmation # "Delete" \/ ~OnMatchingItem) =>
         /\ sdkCalls = <<>>
         /\ refreshes = 0
         /\ secrets = last.secretsBefore
         /\ projects = {ProjectId}
    /\ sdkCalls # <<>> =>
         /\ last.in.confirmation = "Delete"
         /\ OnMatchingItem
         /\ sdkCalls = <<[op |-> last.cmd, id |-> last.in.item.id]>>
         /\ \E i \in 1..Len(last.messages) :
              last.messages[i].kind = "warning" /\ last.messages[i].modal

\* the user dismissed the warning of a delete on a secret of the project
C12_Witness ==
  /\ last.cmd = "deleteSecret"
  /\ OnMatchingItem
  /\ last.in.confirmation = Dismissed
  /\ Len(last.messages) = 1
  /\ Len(secrets) = 2

\* the texts that clear a terminal
ClearCommands == {<<"c", "l", "e", "a", "r">>, <<"c", "l", "s">>, <<"C", "l", "e", "a", "r", "-", "H", "o", "s", "t">>}

\* text sets the environment variable key in one of the terminal dialects
IsSetVariable(text, key) ==
  /\ text \notin ClearCommands
  /\ \E prefix \in {<<"e", "x", "p", "o", "r", "t", " ">> \o key \o <<EQ, DQ>>,
                    <<"s", "e", "t", " ", DQ>> \o key \o <<EQ>>,
                    <<"$", "e", "n", "v", ":">> \o key \o <<EQ, DQ>>} :
       /\ Len(text) > Len(prefix)
       /\ SubSeq(text, 1, Len(prefix)) = prefix
       /\ text[Len(text)] = DQ

LoadedToTerminal == last.cmd \in {"loadSecretToEnv", "loadProjectSecretsToEnv"}

\* the secrets the command looks at, in listing order
Listed ==
  IF last.cmd = "loadSecretToEnv"
  THEN IF last.in.item.type = "secret" THEN <<last.in.item>> ELSE <<>>
  ELSE IF last.in.item.type = "project" /\ last.in.item.id # NoId
  THEN getSecretsForProject(last.secretsBefore, last.in.listFails)
  ELSE <<>>

\* the value Bitwarden returned for the item, Undefined when the fetch failed
ValueOf(item) ==
  IF item.id = NoId \/ item.id \in last.in.fetchFails THEN Undefined
  ELSE last.secretsBefore[CHOOSE i \in 1..Len(last.secretsBefore) :
                            last.secretsBefore[i].id = item.id].value

\* the listed secrets whose fetch returned a value
Retrieved == SelectSeq(Listed, LAMBDA item : ValueOf(item) # Undefined)

\* the listed secrets whose fetch returned a value that is not empty
RetrievedNonEmpty == SelectSeq(Listed, LAMBDA item : ValueOf(item) \notin {Undefined, <<>>})

\* the terminal received one set-variable command per secret of loaded, in
\* order, then one clear command; nothing when loaded is empty
SetThenClear(loaded) ==
  /\ terminal = last.sent
  /\ loaded = <<>> => last.sent = <<>>
  /\ loaded # <<>> =>
       /\ Len(last.sent) = Len(loaded) + 1
       /\ \A i \in 1..Len(loaded) : IsSetVariable(last.sent[i], loaded[i].label)
       /\ last.sent[Len(last.sent)] \in ClearCommands

C14_MessagesHideValues ==
  last.cmd \in {"loadSecretToEnv", "loadProjectSecretsToEnv",
                "loadSecretToEnvViaClipboard", "loadProjectSecretsToEnvViaClipboard",
                "copySecret", "copySecretValue", "copyProjectSecrets"}
    => last.messages = last.twinMessages

TokenKeys == {tokens[i].key : i \in 1..Len(tokens)}

ImportDone == last.cmd = "import"

\* the secrets of a project that carry the key k, in order
WithKey(project, k) == SelectSeq(project, LAMBDA sec : sec.key = k)

\* the positions of sdkCalls that create a secret with the key k
CreateCallsOf(k) ==
  {j \in 1..Len(sdkCalls) : sdkCalls[j].op = "createSecret" /\ sdkCalls[j].key = k}

\* the positions of sdkCalls that delete a secret that carried the key k
DeleteCallsOf(k) ==
  {j \in 1..Len(sdkCalls) :
     /\ sdkCalls[j].op = "deleteSecret"
     /\ \E i \in 1..Len(last.secretsBefore) :
          last.secretsBefore[i].id = sdkCalls[j].id /\ last.secretsBefore[i].key = k}

\* the positions of the conflicts the user answered with the given choice
Answered(choice) ==
  {i \in 1..Len(last.conflicts) : last.in.answers[i] = choice}

C17_DeleteThenRecreate ==
  (ImportDone /\ ~last.cancelled) =>
    \A i \in Answered("Overwrite this secret") :
      /\ DeleteCallsOf(last.conflicts[i]) # {}
      /\ CreateCallsOf(last.conflicts[i]) # {}
      /\ \A d \in DeleteCallsOf(last.conflicts[i]), c \in CreateCallsOf(last.conflicts[i]) : d < c
      /\ Len(WithKey(secrets, last.conflicts[i])) = 1
      /\ \A sec \in Range(WithKey(secrets, last.conflicts[i])) :
           Holds(last.envData, last.conflicts[i], sec.value)

\* ------------------------------------------------------ order of the keys
RECURSIVE FirstOccurrences(_)
\* seq without the repetitions of its elements
FirstOccurrences(seq) ==
  IF seq = <<>> THEN <<>>
  ELSE LET front == FirstOccurrences(SubSeq(seq, 1, Len(seq) - 1))
       IN IF seq[Len(seq)] \in Range(front) THEN front ELSE Append(front, seq[Len(seq)])

RECURSIVE EntryKeysFrom(_, _)
\* the keys of the lines of t that start after the break b, top to bottom
EntryKeysFrom(t, b) ==
  IF b > Len(t) THEN <<>>
  ELSE LET e == Min({x \in Breaks(t) : x > b})
           line == SubSeq(t, b + 1, e - 1)
       IN (IF Contributes(line) THEN <<EntryKey(line)>> ELSE <<>>) \o EntryKeysFrom(t, e)

\* the keys of a .env text in the order a reader meets them
KeysInText(t) == FirstOccurrences(EntryKeysFrom(t, 0))

\* the keys of the secret set in the order the export discovers them: the
\* listing order of the secrets whose value is fetched and not empty
Discovered ==
  IF last.in.listFails THEN <<>>
  ELSE LET found == SelectSeq(sortByKey(last.secretsBefore),
                              LAMBDA sec : sec.id \notin last.in.fetchFails /\ sec.value # <<>>)
       IN FirstOccurrences([i \in 1..Len(found) |-> found[i].key])

\* C18: the file an export writes lists the keys of the existing file first,
\* in their original order, then the added keys in the order they were
\* discovered in the secret set, whatever the key strings are.
C18_MergeInsertionOrder ==
  (ExportParsed /\ last.wrote) =>
    \A before \in {KeysInText(last.fileBefore.text)} :
      KeysInText(file.text) =
        before \o SelectSeq(Discovered, LAMBDA k : k \notin Range(before))

\* ------------------------------------------------- export, failing fetches
\* an export that listed the project and fetched the values
ExportCollected ==
  ExportDone /\ ~(last.via = "writeSecretsToFile" /\ last.in.selection = Dismissed)

\* the secrets whose value the export fetched and found not empty
Fetched ==
  IF last.in.listFails THEN {}
  ELSE {sec \in Range(last.secretsBefore) :
          sec.id \notin last.in.fetchFails /\ sec.value # <<>>}

\* the secrets whose fetch failed or whose value is empty
Unfetched == Range(last.secretsBefore) \ Fetched

\* the user answered every prompt of the export
NothingDismissed ==
  /\ last.in.selection # Dismissed
  /\ last.in.conflictAction # Dismissed
  /\ Dismissed \notin Range(last.in.answers)

\* the export goes on to the write, and every key of the incoming set is in
\* the file written: with the fetched value, or, for a key the file already
\* had, with the value the resolution left
FetchedAreWritten ==
  /\ NothingDismissed => last.wrote
  /\ last.wrote =>
       \A disk \in {readExisting(last.fileBefore)}, after \in {parseEnvFile(file.text)} :
         \A sec \in Fetched :
           /\ ObjHas(after, sec.key)
           /\ \/ Holds(after, sec.key, ObjGet(last.secretData, sec.key))
              \/ last.readTried /\ ObjHas(disk, sec.key)
                 /\ Holds(after, sec.key, ObjGet(disk, sec.key))

\* C19 as stated: the key of a secret whose fetch fails or whose value is
\* empty is omitted from the incoming set, and every secret that was fetched
\* is still reconciled and written.
C19_Original ==
  ExportCollected =>
    /\ \A sec \in Unfetched : ~ObjHas(last.secretData, sec.key)
    /\ \A sec \in Fetched : ObjHas(last.secretData, sec.key)
    /\ FetchedAreWritten

\* C19: a secret whose fetch fails or whose value is empty adds nothing to
\* the incoming set: the set holds exactly the keys of the secrets that were
\* fetched with a value, each with the value of such a secret, so the key of
\* the failing secret is omitted unless another secret carries it; the export
\* is not aborted and the fetched secrets are reconciled and written.
C19_FetchFailureIsLocal ==
  ExportCollected =>
    /\ \A sec \in Unfetched :
         ObjHas(last.secretData, sec.key) => \E other \in Fetched : other.key = sec.key
    /\ \A sec \in Fetched : ObjHas(last.secretData, sec.key)
    /\ \A k \in Range(ObjKeys(last.secretData)) :
         \E sec \in Fetched : sec.key = k /\ Holds(last.secretData, k, sec.value)
    /\ FetchedAreWritten

\* an export where one fetch fails and the other secret is written
C19_Witness ==
  /\ ExportCollected
  /\ last.in.fetchFails # {}
  /\ last.wrote
  /\ \E sec \in Fetched, bad \in Unfetched :
       /\ sec.key # bad.key
       /\ Holds(parseEnvFile(file.text), sec.key, sec.value)
       /\ ~ObjHas(parseEnvFile(file.text), bad.key)

\* ------------------------------------------------ import, failing creations
\* the import reached its create phase
CreatePhaseRan == ImportDone /\ last.refreshed

\* the createSecret calls of the import, in order
CreateCalls == SelectSeq(sdkCalls, LAMBDA c : c.op = "createSecret")

\* the positions of keysToImport whose creation fails
FailedPositions ==
  {i \in 1..Len(last.keysToImport) : last.keysToImport[i] \in last.in.createFails}

\* the secrets the project holds now and did not hold before the import
NewSecrets ==
  SelectSeq(secrets, LAMBDA sec : \A old \in Range(last.secretsBefore) : old.id # sec.id)

\* C20: in the create phase of an import a failing creation is local: every
\* key selected for import is attempted, in order; successCount + errorCount
\* is the number of keys selected; the final message is the success one when
\* errorCount = 0, the partial one when both counts are positive and the
\* failure one when successCount = 0.
C20_CreateFailureIsLocal ==
  CreatePhaseRan =>
    /\ [j \in 1..Len(CreateCalls) |-> CreateCalls[j].key] = last.keysToImport
    /\ last.errorCount = Cardinality(FailedPositions)
    /\ last.successCount + last.errorCount = Len(last.keysToImport)
    /\ [j \in 1..Len(NewSecrets) |-> NewSecrets[j].key]
         = SelectSeq(last.keysToImport, LAMBDA k : k \notin last.in.createFails)
    /\ Len(NewSecrets) = last.successCount
    /\ \A m \in {last.messages[Len(last.messages)]} :
         /\ m.kind = "info" <=> (last.successCount > 0 /\ last.errorCount = 0)
         /\ m.kind = "warning" <=> (last.successCount > 0 /\ last.errorCount > 0)
         /\ m.kind = "error" <=> last.successCount = 0

\* an import where one creation fails and a later key is still created
C20_Witness ==
  /\ CreatePhaseRan
  /\ last.messages[Len(last.messages)].kind = "warning"
  /\ \E i, j \in 1..Len(last.keysToImport) :
       /\ i < j
       /\ i \in FailedPositions
       /\ \E sec \in Range(NewSecrets) : sec.key = last.keysToImport[j]

\* ------------------------------------------------- export of an empty project
\* the message 'No secrets found in this project' was shown
SaidNothingFound ==
  \E i \in 1..Len(last.messages) :
    last.messages[i].text = "No secrets found in this project"

\* C26: an export of a project that has no secret, or whose secret list could
\* not be loaded, reports that nothing was found and leaves the selected
\* target file as it was.
C26_EmptyProjectNotWritten ==
  (/\ ExportCollected
   /\ last.in.selection # Dismissed
   /\ last.secretsBefore = <<>> \/ last.in.listFails)
    => /\ SaidNothingFound
       /\ ~last.wrote
       /\ file = last.fileBefore

\* ---------------------------------------------- import over existing keys
\* C27: an import creates no secret for a key that a secret of the project
\* already carries unless the user answered 'Overwrite this secret' for that
\* key; when the listing of the project's secrets fails nothing is created.
C27_NoCreateOverExisting ==
  ImportDone =>
    /\ \A j \in 1..Len(sdkCalls) :
         (sdkCalls[j].op = "createSecret"
            /\ WithKey(last.secretsBefore, sdkCalls[j].key) # <<>>)
           => \E i \in Answered("Overwrite this secret") :
                last.conflicts[i] = sdkCalls[j].key
    /\ last.in.listFails => CreateCalls = <<>>
\* ============================================== welcome view and tree view
\* ----------------------------------------------------- BitwardenSdkService
TokenA == <<"t", "o", "k", "e", "n", "-", "0", "0", "0", "a">>

TokenB == <<"t", "o", "k", "e", "n", "-", "0", "0", "0", "b">>

\* a token the identity server does not accept
TokenRevoked == <<"t", "o", "k", "e", "n", "-", "0", "0", "0", "x">>

\* the tokens the identity server accepts
ValidTokens == {TokenA, TokenB}

OrgId == <<"o", "r", "g">>

\* authenticate: logs the client in; reachable says whether the identity
\* server answered
authenticate(sdk, accessToken, reachable) ==
  IF reachable /\ accessToken \in ValidTokens
  THEN [sdk |-> [sdk EXCEPT !.isAuthenticated = TRUE, !.session = accessToken],
        threw |-> FALSE]
  ELSE [sdk |-> [sdk EXCEPT !.isAuthenticated = FALSE], threw |-> TRUE]

isClientAuthenticated(sdk) == sdk.isAuthenticated

setOrganizationId(sdk, orgId) == [sdk EXCEPT !.organizationId = trim(orgId)]

\* the error a data method throws before it sends anything, "none" if it goes on
guardError(sdk) ==
  IF ~isClientAuthenticated(sdk) THEN "Client not authenticated"
  ELSE IF sdk.organizationId = NoText THEN "Organization ID not set"
  ELSE "none"

\* ------------------------------------------------------------ secret storage
secretsGet(store, key) ==
  IF \E i \in 1..Len(store) : store[i].key = key
  THEN (CHOOSE e \in Range(store) : e.key = key).value
  ELSE NoText

secretsStore(store, key, value) ==
  IF \E i \in 1..Len(store) : store[i].key = key
  THEN [i \in 1..Len(store) |->
          IF store[i].key = key THEN [key |-> key, value |-> value] ELSE store[i]]
  ELSE Append(store, [key |-> key, value |-> value])

\* ------------------------------------------------- BitwardenWelcomeProvider
\* the states checkCurrentState returns
NoTokenState ==
  [hasAccessToken |-> FALSE, hasOrganizationId |-> FALSE, isAuthenticated |-> FALSE,
   hasProjects |-> FALSE, hasData |-> FALSE, error |-> FALSE]

NoOrganizationState == [NoTokenState EXCEPT !.hasAccessToken = TRUE]

AuthErrorState ==
  [NoTokenState EXCEPT !.hasAccessToken = TRUE, !.hasOrganizationId = TRUE,
                       !.error = TRUE]

ListedState(listed) ==
  [hasAccessToken |-> TRUE, hasOrganizationId |-> TRUE, isAuthenticated |-> TRUE,
   hasProjects |-> listed # {}, hasData |-> listed # {}, error |-> FALSE]

\* getHtmlForWebview asking for projects before it asks for authentication
getHtmlForWebview_projectsFirst(state) ==
  IF ~state.hasAccessToken THEN "setupAccessToken"
  ELSE IF ~state.hasOrganizationId THEN "setupOrganization"
  ELSE IF ~state.hasProjects THEN "noProjects"
  ELSE IF ~state.isAuthenticated THEN "authenticationError"
  ELSE "loading"

getHtmlForWebview(state) ==
  IF ~state.hasAccessToken THEN "setupAccessToken"
  ELSE IF ~state.hasOrganizationId THEN "setupOrganization"
  ELSE IF ~state.isAuthenticated THEN "authenticationError"
  ELSE IF ~state.hasProjects THEN "noProjects"
  ELSE "loading"
\* --------------------------------------------------------- ApplicationState
MaxCalls == 2

\* what the asynchronous steps below read and write
World ==
  [tokens |-> tokens, projects |-> projects, welcomeSdk |-> welcomeSdk,
   screen |-> screen, app |-> app, calls |-> calls]

\* the updateView call c has returned
returned(w, c) == [w EXCEPT !.calls = @ (-) SetToBag({c})]

\* the updateView call c goes on as d
goesOn(w, c, d) == [w EXCEPT !.calls = (@ (-) SetToBag({c})) (+) SetToBag({d})]

\* no call in flight holds the provider ApplicationState refers to any more
disowned(w) ==
  IF \E c \in BagToSet(w.calls) : c.owns
  THEN LET c == CHOOSE x \in BagToSet(w.calls) : x.owns
       IN goesOn(w, c, [c EXCEPT !.owns = FALSE])
  ELSE w

disposeTreeView(w) ==
  IF ~w.app.treeView THEN w
  ELSE [disowned(w) EXCEPT !.app.treeView = FALSE,
                           !.app.provider = NoProvider]

\* setHasData called by the updateView call c, up to its first await:
\* createTreeView makes the provider and waits for its getChildren
setHasData(w, c, hasData) ==
  IF w.app.hasData = hasData THEN returned(w, c)
  ELSE IF hasData /\ ~w.app.treeView
  THEN [goesOn(disowned(w), c, [c EXCEPT !.pc = "createTreeView", !.owns = TRUE])
          EXCEPT !.app.hasData = TRUE,
                 !.app.provider = [exists |-> TRUE, sdk |-> NewSdkService]]
  ELSE IF ~hasData /\ w.app.treeView
  THEN [returned(disposeTreeView(w), c) EXCEPT !.app.hasData = FALSE]
  ELSE [returned(w, c) EXCEPT !.app.hasData = hasData]

\* the rest of updateView once checkCurrentState has returned state
showState(w, c, state, outcome) ==
  setHasData([w EXCEPT !.screen = [page |-> getHtmlForWebview(state),
                                   hasData |-> state.hasData,
                                   hasToken |-> c.hasToken,
                                   hasOrg |-> c.org # NoText,
                                   outcome |-> outcome,
                                   stale |-> c.stale]],
             c, state.hasData)

\* checkCurrentState from setOrganizationId on: listProjects throws at once
\* or sends its command
callListProjects(w, c) ==
  LET sdk == setOrganizationId(w.welcomeSdk, c.org)
      v == [w EXCEPT !.welcomeSdk = sdk]
      d == [c EXCEPT !.token = NoText, !.stale = sdk.session # c.token]
  IN IF guardError(sdk) # "none"
     THEN showState(goesOn(v, c, d), d, AuthErrorState, "listFailed")
     ELSE goesOn(v, c, [d EXCEPT !.pc = "listProjects"])

\* a new updateView call, up to the first answer it waits for
updateView(w) ==
  LET token == secretsGet(w.tokens, "bitwardenAccessToken")
      org == secretsGet(w.tokens, "bitwardenOrganizationId")
      c == [pc |-> "checkCurrentState", token |-> token,
            hasToken |-> token # NoText,
            org |-> IF token = NoText THEN NoText ELSE org,
            stale |-> FALSE, owns |-> FALSE]
      v == [w EXCEPT !.calls = @ (+) SetToBag({c})]
  IN IF token = NoText THEN showState(v, c, NoTokenState, "notTried")
     ELSE IF org = NoText THEN showState(v, c, NoOrganizationState, "notTried")
     ELSE IF ~isClientAuthenticated(w.welcomeSdk)
     THEN goesOn(v, c, [c EXCEPT !.pc = "authenticate"])
     ELSE callListProjects(v, c)

\* the answer to the authenticate of call c arrives
authenticateReturns(w, c, reachable) ==
  LET r == authenticate(w.welcomeSdk, c.token, reachable)
      v == [w EXCEPT !.welcomeSdk = r.sdk]
      d == [c EXCEPT !.token = NoText]
  IN IF r.threw THEN showState(goesOn(v, c, d), d, AuthErrorState, "authFailed")
     ELSE callListProjects(v, c)

\* the answer to the listProjects of call c arrives
listProjectsReturns(w, c, ok) ==
  IF ok THEN showState(w, c, ListedState(w.projects),
                       IF w.projects = {} THEN "listedNone" ELSE "listedSome")
  ELSE showState(w, c, AuthErrorState, "listFailed")

\* BitwardenSecretsProvider.getChildren as far as it changes the provider's
\* SDK service: authenticateSDK and ensureOrganizationId
getChildren(sdk, store, reachable) ==
  LET token == secretsGet(store, "bitwardenAccessToken")
      org == secretsGet(store, "bitwardenOrganizationId")
      r == IF isClientAuthenticated(sdk) THEN [sdk |-> sdk, threw |-> FALSE]
           ELSE authenticate(sdk, token, reachable)
  IN IF token = NoText THEN sdk
     ELSE IF r.threw \/ r.sdk.organizationId # NoText \/ org = NoText THEN r.sdk
     ELSE setOrganizationId(r.sdk, org)

\* createTreeView after getChildren has answered, and the end of setHasData
createTreeView(w, c, reachable) ==
  LET v == IF c.owns
           THEN [w EXCEPT !.app.provider.sdk = getChildren(@, w.tokens, reachable)]
           ELSE w
  IN [returned(v, c) EXCEPT !.app.treeView = TRUE]

getOrCreateProvider(a) ==
  IF a.provider.exists THEN a.provider.sdk ELSE NewSdkService

\* ------------------------------------------------------------ authCommands
\* validateInput of the access token input box: the message, "none" if accepted
validateAccessToken(value) ==
  IF trim(value) = NoText THEN "Access token cannot be empty"
  ELSE IF Len(value) < 10 THEN "Access token appears to be too short"
  ELSE "none"

\* setAccessTokenCommand leaving the token it stored when the login fails
setAccessTokenCommand_keepsToken(store, sdk, entered, fault) ==
  LET trimmed == trim(entered)
      stored == secretsStore(store, "bitwardenAccessToken", trimmed)
      r == authenticate(sdk, trimmed, ~fault.login)
  IN IF entered = Undefined \/ validateAccessToken(entered) # "none"
     THEN [tokens |-> store, sdk |-> sdk, auth |-> "none", threw |-> FALSE,
           messages |-> <<>>]
     ELSE IF fault.store
     THEN [tokens |-> store, sdk |-> sdk, auth |-> "none", threw |-> FALSE,
           messages |-> <<>>]
     ELSE [tokens |-> stored, sdk |-> r.sdk,
           auth |-> IF r.threw THEN "failed" ELSE "ok", threw |-> FALSE,
           messages |-> <<>>]

\* setAccessTokenCommand run on the SDK service of provider; entered is what
\* the user typed (Undefined if the box was closed), fault what fails: the
\* store, the login or the delete of the catch block
setAccessTokenCommand(store, sdk, entered, fault) ==
  LET trimmed == trim(entered)
      stored == secretsStore(store, "bitwardenAccessToken", trimmed)
      r == authenticate(sdk, trimmed, ~fault.login)
      failed == [kind |-> "error", text |-> "Failed to authenticate with provided token"]
  IN IF entered = Undefined \/ validateAccessToken(entered) # "none"
     THEN [tokens |-> store, sdk |-> sdk, auth |-> "none", threw |-> FALSE,
           messages |-> <<>>]
     ELSE IF fault.store
     THEN [tokens |-> IF fault.delete THEN store
                      ELSE secretsDelete(store, "bitwardenAccessToken"),
           sdk |-> sdk, auth |-> "none", threw |-> fault.delete,
           messages |-> <<failed>>]
     ELSE IF r.threw
     THEN [tokens |-> IF fault.delete THEN stored
                      ELSE secretsDelete(stored, "bitwardenAccessToken"),
           sdk |-> r.sdk, auth |-> "failed", threw |-> fault.delete,
           messages |-> <<failed>>]
     ELSE [tokens |-> stored, sdk |-> r.sdk, auth |-> "ok", threw |-> FALSE,
           messages |-> <<[kind |-> "info",
                           text |-> "Bitwarden Access Token set successfully!"]>>]

\* setOrganizationIdCommand; the input box lets through well-formed ids only
setOrganizationIdCommand(store, sdk, entered) ==
  IF entered = Undefined
  THEN [tokens |-> store, sdk |-> sdk, auth |-> "none", threw |-> FALSE,
        messages |-> <<>>]
  ELSE [tokens |-> secretsStore(store, "bitwardenOrganizationId", trim(entered)),
        sdk |-> setOrganizationId(sdk, trim(entered)), auth |-> "none",
        threw |-> FALSE,
        messages |-> <<[kind |-> "info",
                        text |-> "Bitwarden Organization ID set successfully!"]>>]

\* --------------------------------------------------------- projectCommands
\* createProjectCommand after its prompt: the SDK call throws at its guard or
\* when the server fails, which the handler shows
createProjectCommand(held, sdk, ok) ==
  IF guardError(sdk) = "none" /\ ok
  THEN [projects |-> held \cup {ProjectId},
        messages |-> <<[kind |-> "info", text |-> "Project created successfully"]>>]
  ELSE [projects |-> held,
        messages |-> <<[kind |-> "error", text |-> "Failed to create project"]>>]

\* ---------------------------------------------------------- CommandRegistry
\* defineCommands: the flags of the commands
CommandIds ==
  {"setAccessToken", "setOrganizationId", "clearTokens", "checkStatus",
   "createProject", "deleteProject", "copyProjectId"}

requiresProvider(id) == id \in {"createProject", "deleteProject", "copyProjectId"}

refreshAfter(id) ==
  id \in {"setAccessToken", "setOrganizationId", "clearTokens", "createProject",
          "deleteProject"}

\* the world with the SDK service of getOrCreateProvider() replaced
withProviderSdk(w, sdk) ==
  IF w.app.provider.exists THEN [w EXCEPT !.app.provider.sdk = sdk] ELSE w

\* the handler of command id: what it leaves behind, whether it threw
handler(w, id, in) ==
  IF id = "setAccessToken"
  THEN LET r == setAccessTokenCommand(w.tokens, getOrCreateProvider(w.app),
                                      in.entered, in.fault)
       IN [w |-> withProviderSdk([w EXCEPT !.tokens = r.tokens], r.sdk),
           threw |-> r.threw, messages |-> r.messages, auth |-> r.auth,
           sdk |-> r.sdk]
  ELSE IF id = "setOrganizationId"
  THEN LET r == setOrganizationIdCommand(w.tokens, getOrCreateProvider(w.app),
                                         in.entered)
       IN [w |-> withProviderSdk([w EXCEPT !.tokens = r.tokens], r.sdk),
           threw |-> FALSE, messages |-> r.messages, auth |-> "none", sdk |-> r.sdk]
  ELSE IF id = "clearTokens"
  THEN LET r == clearTokensCommand(w.tokens, in.entered, 0)
       IN [w |-> [w EXCEPT !.tokens = r.tokens], threw |-> FALSE,
           messages |-> r.messages, auth |-> "none", sdk |-> NewSdkService]
  ELSE IF id = "checkStatus"
  THEN [w |-> updateView(w), threw |-> FALSE, messages |-> <<>>,
        auth |-> "none", sdk |-> NewSdkService]
  ELSE IF id = "createProject"
  THEN LET r == createProjectCommand(w.projects, w.app.provider.sdk, ~in.fault.login)
       IN [w |-> [w EXCEPT !.projects = r.projects], threw |-> FALSE,
           messages |-> r.messages, auth |-> "none", sdk |-> w.app.provider.sdk]
  ELSE IF id = "deleteProject"
  THEN LET r == deleteProjectCommand(
                  [label |-> ProjectName, type |-> "project", id |-> ProjectId],
                  w.projects, "Delete",
                  guardError(w.app.provider.sdk) # "none" \/ in.fault.login)
       IN [w |-> [w EXCEPT !.projects = r.projects], threw |-> FALSE,
           messages |-> r.messages, auth |-> "none", sdk |-> w.app.provider.sdk]
  ELSE \* copyProjectId: the clipboard write may fail
       [w |-> w, threw |-> in.fault.store, messages |-> <<>>, auth |-> "none",
        sdk |-> w.app.provider.sdk]

\* the callback without its provider check and with the refresh in a finally
runCommand_alwaysRuns(w, id, in) ==
  LET r == handler(w, id, in)
  IN [w |-> IF refreshAfter(id) THEN updateView(r.w) ELSE r.w,
      ran |-> [command |-> id, in |-> in, hadProvider |-> w.app.provider.exists,
               handlerRan |-> TRUE, threw |-> r.threw,
               refreshed |-> refreshAfter(id),
               auth |-> r.auth, sdk |-> r.sdk, messages |-> r.messages]]

\* the callback registerAll registers for command id: the world it leaves
\* and what the run did
runCommand(w, id, in) ==
  LET r == handler(w, id, in)
      about == [command |-> id, in |-> in, hadProvider |-> w.app.provider.exists]
      failed == [kind |-> "error", text |-> "Failed to execute command"]
  IN IF requiresProvider(id) /\ ~w.app.provider.exists
     THEN [w |-> w,
           ran |-> [command |-> id, in |-> in, hadProvider |-> FALSE,
                    handlerRan |-> FALSE, threw |-> FALSE, refreshed |-> FALSE,
                    auth |-> "none", sdk |-> NewSdkService, messages |-> <<>>]]
     ELSE IF r.threw
     THEN [w |-> r.w,
           ran |-> [command |-> id, in |-> in,
                    hadProvider |-> w.app.provider.exists,
                    handlerRan |-> TRUE, threw |-> TRUE, refreshed |-> FALSE,
                    auth |-> r.auth, sdk |-> r.sdk,
                    messages |-> Append(r.messages, failed)]]
     ELSE [w |-> IF refreshAfter(id) THEN updateView(r.w) ELSE r.w,
           ran |-> [command |-> id, in |-> in,
                    hadProvider |-> w.app.provider.exists,
                    handlerRan |-> TRUE, threw |-> FALSE,
                    refreshed |-> refreshAfter(id),
                    auth |-> r.auth, sdk |-> r.sdk, messages |-> r.messages]]

\* ------------------------------------------------ the extension as it runs
NoFault == [store |-> FALSE, login |-> FALSE, delete |-> FALSE]

\* what can fail while setAccessTokenCommand runs
Faults ==
  {NoFault,
   [NoFault EXCEPT !.store = TRUE],
   [NoFault EXCEPT !.login = TRUE],
   [NoFault EXCEPT !.store = TRUE, !.delete = TRUE],
   [NoFault EXCEPT !.login = TRUE, !.delete = TRUE]}

\* what the user types into the access token box
EnteredTokens == {Undefined, <<"a">>, TokenA, <<SP>> \o TokenB, TokenRevoked}

\* those of them the command does not take up
RejectedTokens ==
  {e \in EnteredTokens : e = Undefined \/ validateAccessToken(e) # "none"}

\* the inputs a run of command id may meet
CommandInputs(id) ==
  IF id = "setAccessToken"
  THEN {[entered |-> e, fault |-> f] :
          e \in EnteredTokens \ RejectedTokens, f \in Faults}
       \cup {[entered |-> e, fault |-> NoFault] : e \in RejectedTokens}
  ELSE IF id = "setOrganizationId"
  THEN {[entered |-> e, fault |-> NoFault] : e \in {Undefined, OrgId}}
  ELSE IF id = "clearTokens"
  THEN {[entered |-> e, fault |-> NoFault] : e \in {Dismissed, "Yes, Clear Tokens"}}
  ELSE IF id \in {"createProject", "deleteProject"}
  THEN {[entered |-> Dismissed, fault |-> f] :
          f \in {NoFault, [NoFault EXCEPT !.login = TRUE]}}
  ELSE IF id = "copyProjectId"
  THEN {[entered |-> Dismissed, fault |-> f] :
          f \in {NoFault, [NoFault EXCEPT !.store = TRUE]}}
  ELSE {[entered |-> Dismissed, fault |-> NoFault]}

\* what secret storage may hold when the extension starts
InitialStores ==
  { <<>>,
    <<[key |-> "bitwardenAccessToken", value |-> TokenA]>>,
    <<[key |-> "bitwardenAccessToken", value |-> TokenA],
      [key |-> "bitwardenOrganizationId", value |-> OrgId]>>,
    <<[key |-> "bitwardenAccessToken", value |-> TokenRevoked],
      [key |-> "bitwardenOrganizationId", value |-> OrgId]>> }

appFrame ==
  <<envVars, cmdVars, terminal, clipboard, sdkCalls, refreshes, svcVars, fsVars>>

AppInit ==
  /\ EnvIdle
  /\ CmdIdle
  /\ terminal = <<>>
  /\ clipboard = NoText
  /\ sdkCalls = <<>>
  /\ refreshes = 0
  /\ SvcIdle
  /\ FsIdle
  /\ tokens \in InitialStores
  /\ projects \in {{}, {ProjectId}}
  /\ welcomeSdk = NewSdkService
  /\ screen = NoScreen
  /\ app = [hasData |-> FALSE, treeView |-> FALSE, provider |-> NoProvider]
  /\ calls = EmptyBag
  /\ ran = [command |-> "none"]

Install(w) ==
  /\ tokens' = w.tokens
  /\ projects' = w.projects
  /\ welcomeSdk' = w.welcomeSdk
  /\ screen' = w.screen
  /\ app' = w.app
  /\ calls' = w.calls

\* another updateView call may start
CanCall == BagCardinality(calls) < MaxCalls

\* the welcome view is resolved, sends a message or is refreshed
UpdateViewRequested ==
  /\ CanCall
  /\ Install(updateView(World))
  /\ UNCHANGED <<appFrame, ran>>

AuthenticateReturns ==
  \E c \in BagToSet(calls), reachable \in BOOLEAN :
    /\ c.pc = "authenticate"
    /\ Install(authenticateReturns(World, c, reachable))
    /\ UNCHANGED <<appFrame, ran>>

ListProjectsReturns ==
  \E c \in BagToSet(calls), ok \in BOOLEAN :
    /\ c.pc = "listProjects"
    /\ Install(listProjectsReturns(World, c, ok))
    /\ UNCHANGED <<appFrame, ran>>

TreeViewCreated ==
  \E c \in BagToSet(calls), reachable \in BOOLEAN :
    /\ c.pc = "createTreeView"
    /\ Install(createTreeView(World, c, reachable))
    /\ UNCHANGED <<appFrame, ran>>

\* a command is run; the run is not singled out
RunCommand ==
  \E id \in CommandIds :
    \E in \in CommandInputs(id) :
      /\ CanCall
      /\ Install(runCommand(World, id, in).w)
      /\ UNCHANGED <<appFrame, ran>>

AppNext ==
  \/ UpdateViewRequested
  \/ AuthenticateReturns
  \/ ListProjectsReturns
  \/ TreeViewCreated
  \/ RunCommand

SpecApp == AppInit /\ [][AppNext]_vars
\* ------------------------------------------------- one command, looked at
\* a command is run and what it did is kept in ran; no other command runs
ObservedRun ==
  \E id \in CommandIds :
    \E in \in CommandInputs(id) :
      /\ ran.command = "none"
      /\ CanCall
      /\ \E r \in {runCommand(World, id, in)} :
           /\ Install(r.w)
           /\ ran' = r.ran
      /\ UNCHANGED appFrame

CmdRunNext ==
  \/ UpdateViewRequested
  \/ AuthenticateReturns
  \/ ListProjectsReturns
  \/ TreeViewCreated
  \/ ObservedRun

SpecCmd == AppInit /\ [][CmdRunNext]_vars

\* ------------------------------------------ one SDK service, calls overlapping
\* the methods that read or write projects and secrets
DataMethods ==
  {"listProjects", "listSecrets", "getSecret", "createSecret", "updateSecret",
   "deleteSecret", "createProject", "updateProject", "deleteProject"}

\* a data method is called: it throws at its guard or writes its first command
\* to the native client; before is the service as the call found it
callMethod(sdk, op) ==
  [error |-> guardError(sdk),
   wire |-> IF guardError(sdk) = "none" THEN [op |-> op, sdk |-> sdk] ELSE NoCommand,
   sdk |-> sdk]

SvcInit ==
  /\ EnvIdle
  /\ CmdIdle
  /\ UiIdle
  /\ AppIdle
  /\ FsIdle
  /\ service = NewSdkService
  /\ pending = EmptyBag
  /\ wire = NoCommand
  /\ ended = NoOutcome

svcFrame == <<envVars, cmdVars, uiVars, appVars, fsVars>>

CanCallService == BagCardinality(pending) < MaxCalls

\* setOrganizationId, with an id or with blanks
SetOrganizationId ==
  \E orgId \in {OrgId, <<SP>>} :
    /\ service' = setOrganizationId(service, orgId)
    /\ UNCHANGED <<pending, wire, ended, svcFrame>>

\* authenticate is called: the login is on its way
CallAuthenticate ==
  \E token \in {TokenA, TokenRevoked} :
    /\ CanCallService
    /\ pending' = pending (+) SetToBag({[op |-> "authenticate", token |-> token]})
    /\ UNCHANGED <<service, wire, ended, svcFrame>>

\* the login answers
AuthenticateAnswers ==
  \E c \in BagToSet(pending), reachable \in BOOLEAN :
    /\ c.op = "authenticate"
    /\ \E r \in {authenticate(service, c.token, reachable)} :
         /\ service' = r.sdk
         /\ ended' = [op |-> "authenticate",
                        error |-> IF r.threw THEN "Authentication failed" ELSE "none",
                        before |-> service, after |-> r.sdk]
    /\ pending' = pending (-) SetToBag({c})
    /\ UNCHANGED <<wire, svcFrame>>

\* a data method that sends one command is called
CallDataMethod ==
  \E op \in DataMethods \ {"listSecrets"} :
    \E r \in {callMethod(service, op)} :
      /\ ended' = [op |-> op, error |-> r.error, before |-> service, after |-> r.sdk]
      /\ wire' = IF r.error = "none" THEN r.wire ELSE wire
      /\ service' = r.sdk
      /\ UNCHANGED <<pending, svcFrame>>

\* listSecrets is called: it throws at its guard or sends the list command
CallListSecrets ==
  \E r \in {callMethod(service, "listSecrets")} :
    /\ CanCallService
    /\ service' = r.sdk
    /\ IF r.error = "none"
       THEN /\ wire' = r.wire
            /\ pending' = pending (+) SetToBag({[op |-> "listSecrets", token |-> NoText]})
            /\ UNCHANGED ended
       ELSE /\ ended' = [op |-> "listSecrets", error |-> r.error, before |-> service,
                          after |-> r.sdk]
            /\ UNCHANGED <<wire, pending>>
    /\ UNCHANGED svcFrame

\* the list answers: listSecrets sends a get command for every secret listed
ListSecretsAnswers ==
  \E c \in BagToSet(pending), listed \in 0..1 :
    /\ c.op = "listSecrets"
    /\ wire' = IF listed > 0 THEN [op |-> "listSecrets", sdk |-> service] ELSE wire
    /\ ended' = [op |-> "listSecrets", error |-> "none", before |-> service,
                 after |-> service]
    /\ pending' = pending (-) SetToBag({c})
    /\ UNCHANGED <<service, svcFrame>>

SvcNext ==
  \/ SetOrganizationId
  \/ CallAuthenticate
  \/ AuthenticateAnswers
  \/ CallDataMethod
  \/ CallListSecrets
  \/ ListSecretsAnswers

SpecSdk == SvcInit /\ [][SvcNext]_vars

\* C24: a command of listProjects, listSecrets, getSecret, createSecret,
\* updateSecret, deleteSecret, createProject, updateProject or deleteProject is
\* written to the native client only while the service is authenticated and
\* holds an organization id; a call that is refused fails with an error and
\* leaves the service as it was; a failed authenticate leaves the service
\* unauthenticated.
C24_GuardedCommands ==
  /\ wire.op \in DataMethods
       => (wire.sdk.isAuthenticated /\ wire.sdk.organizationId # NoText)
  /\ (ended.op \in DataMethods /\ guardError(ended.before) # "none")
       => (ended.error # "none" /\ ended.after = ended.before)
  /\ (ended.op = "authenticate" /\ ended.error # "none")
       => ~ended.after.isAuthenticated

C22_TreeIffHasData ==
  calls = EmptyBag =>
    /\ app.treeView = app.hasData
    /\ app.provider.exists = app.hasData

\* ------------------------------------- the session behind the welcome view
\* C23: whenever the welcome view shows the session as authenticated, the SDK
\* service was logged in with the access token the state check read from
\* storage.
C23_SessionOfStoredToken ==
  screen.outcome \in {"listedNone", "listedSome"} => ~screen.stale
\* ------------------------------------------------ invalid tokens are not kept
\* the observed run was setAccessTokenCommand with a token the input box let
\* through
TokenEntered ==
  /\ ran.command = "setAccessToken"
  /\ ran.in.entered \notin RejectedTokens

StoredToken == secretsGet(tokens, "bitwardenAccessToken")

C30_ProviderGuardAndCatch ==
  ran.command # "none" =>
    /\ (requiresProvider(ran.command) /\ ~ran.hadProvider)
         => (~ran.handlerRan /\ ~ran.refreshed /\ ran.messages = <<>>)
    /\ ran.threw
         => /\ ~ran.refreshed
            /\ ran.messages # <<>>
            /\ ran.messages[Len(ran.messages)].text = "Failed to execute command"

C30_Witness ==
  /\ ran.command = "copyProjectId"
  /\ ran.hadProvider
  /\ ran.threw

\* ===================================================================
\* BitwardenFileSystemProvider (src/src/fileSystemProvider.ts)
\* ===================================================================
\* The provider serves the secrets of a project as files
\* /projects/<projectId>/<key>.json.  A document is what toJSON writes of a
\* SecretDocument that matters here: id, key and value.

FsKeys == {"a", "b"}

FsValues == {"x", "y"}

FsProject == "p1"

NewSecretId == "NEW_SECRET"

\* the ids Bitwarden gives to the secrets it creates, in the order it gives them
IdNames == <<"s1", "s2">>

FileName == [k \in FsKeys |-> IF k = "a" THEN "a.json" ELSE "b.json"]

\* uri.path, split at '/'
UriPath(k) == <<"", "projects", FsProject, FileName[k]>>

Uri(k) == [scheme |-> "bitwarden", path |-> UriPath(k)]

\* uri.toString(): the scheme and a colon before the path
uriToString(uri) == <<uri.scheme, ":">> \o uri.path

_getSecretKeyFromPath(path) == CHOOSE k \in FsKeys : FileName[k] = path[4]

SecretDocument(id, key, value) == [id |-> id, key |-> key, value |-> value]

\* ---- the cache: a Map from strings to SecretDocument objects.  An entry
\* holds a reference to an object; two entries with the same ref hold the
\* same object, so that a change of the object shows through both.
CacheKeys == {UriPath(k) : k \in FsKeys} \cup {uriToString(Uri(k)) : k \in FsKeys}

Refs == 1..Cardinality(CacheKeys)

cacheHas(c, at) == \E e \in c : e.at = at

cacheEntry(c, at) == CHOOSE e \in c : e.at = at

cacheGet(c, at) == cacheEntry(c, at).doc

cacheDelete(c, at) == {e \in c : e.at # at}

cacheSet(c, at, ref, doc) ==
  cacheDelete(c, at) \cup {[at |-> at, ref |-> ref, doc |-> doc]}

\* a new object: a reference that no entry other than the one at `at` holds
newObject(c, at) ==
  LET used == {e.ref : e \in cacheDelete(c, at)}
  IN CHOOSE r \in Refs : r \notin used /\ \A q \in Refs \ used : r <= q

\* an assignment to a field of the object `ref`
assignKey(c, ref, key) ==
  {IF e.ref = ref THEN [e EXCEPT !.doc.key = key] ELSE e : e \in c}

\* ---- what the service answers
IdsKnown(rem, c, prev) ==
  {d.id : d \in rem} \cup {e.doc.id : e \in c} \cup {prev.doc.id, prev.saved.id}

HasFreeId(rem, c, prev) ==
  \E i \in 1..Len(IdNames) : IdNames[i] \notin IdsKnown(rem, c, prev)

FreeId(rem, c, prev) ==
  LET free == {i \in 1..Len(IdNames) : IdNames[i] \notin IdsKnown(rem, c, prev)}
  IN IdNames[CHOOSE i \in free : \A j \in free : i <= j]

\* _getSecretsForProject(projectId) followed by find(s => s.key === key):
\* the listing fails, or it finds one of the secrets with the key, or none
Listings(rem, key) ==
  LET hits == {d \in rem : d.key = key}
  IN {[ok |-> FALSE, found |-> NoDoc]}
       \cup {[ok |-> TRUE, found |-> d] : d \in IF hits = {} THEN {NoDoc} ELSE hits}

_getSecretFromPath(c, path, listing) ==
  IF cacheHas(c, path)
  THEN [cache |-> c, ref |-> cacheEntry(c, path).ref,
        doc |-> cacheGet(c, path), threw |-> FALSE]
  ELSE IF ~listing.ok
  THEN [cache |-> c, ref |-> 0, doc |-> NoDoc, threw |-> TRUE]
  ELSE IF listing.found = NoDoc
  THEN [cache |-> c, ref |-> 0, doc |-> NoDoc, threw |-> FALSE]
  ELSE LET r == newObject(c, path)
       IN [cache |-> cacheSet(c, path, r, listing.found), ref |-> r,
           doc |-> listing.found, threw |-> FALSE]

\* _saveSecret(secret, isCreate); `id` is the id a created secret gets
_saveSecret(rem, secret, isCreate, ok, id) ==
  LET isNewSecret == isCreate \/ secret.id = "" \/ secret.id = NewSecretId
      created == SecretDocument(id, secret.key, secret.value)
      updated == SecretDocument(secret.id, secret.key, secret.value)
  IN IF ~ok THEN [remote |-> rem, doc |-> NoDoc, threw |-> TRUE]
     ELSE IF isNewSecret \/ ~\E d \in rem : d.id = secret.id
     THEN [remote |-> rem \cup {created}, doc |-> created, threw |-> FALSE]
     ELSE [remote |-> {d \in rem : d.id # secret.id} \cup {updated},
           doc |-> updated, threw |-> FALSE]

_deleteSecret(rem, secretId, ok) ==
  IF ok /\ \E d \in rem : d.id = secretId
  THEN [remote |-> {d \in rem : d.id # secretId}, threw |-> FALSE]
  ELSE [remote |-> rem, threw |-> TRUE]

\* ---- the operations.  Each returns the cache and the secrets after the
\* call, the document it returned, whether it threw, and the events it
\* handed to _fireSoon, one sequence for each call of _fireSoon.
FsResult(c, rem, doc, threw, fired) ==
  [cache |-> c, remote |-> rem, doc |-> doc, threw |-> threw, fired |-> fired]

FileChange(type, uri) == [type |-> type, key |-> _getSecretKeyFromPath(uri.path)]

stat(c, rem, uri, listing) ==
  IF cacheHas(c, uri.path)
  THEN FsResult(c, rem, NoDoc, FALSE, <<>>)
  ELSE LET got == _getSecretFromPath(c, uri.path, listing)
       IN FsResult(got.cache, rem, NoDoc, got.threw, <<>>)

readFile(c, rem, uri, listing) ==
  LET cacheKey == uriToString(uri)
  IN IF cacheHas(c, cacheKey)
     THEN FsResult(c, rem, cacheGet(c, cacheKey), FALSE, <<>>)
     ELSE LET got == _getSecretFromPath(c, uri.path, listing)
              isNew == got.doc = NoDoc
              finalSecret ==
                IF isNew
                THEN SecretDocument(NewSecretId, _getSecretKeyFromPath(uri.path), "")
                ELSE got.doc
              ref == IF isNew THEN newObject(got.cache, cacheKey) ELSE got.ref
          IN IF got.threw
             THEN FsResult(c, rem, NoDoc, TRUE, <<>>)
             ELSE FsResult(cacheSet(got.cache, cacheKey, ref, finalSecret), rem,
                           finalSecret, FALSE, <<>>)

providerWriteFile(c, rem, uri, secret, ok, id) ==
  LET isNewSecret == secret.id = "" \/ secret.id = NewSecretId
      saved == _saveSecret(rem, secret, isNewSecret, ok, id)
  IN IF secret.key = "" \/ saved.threw
     THEN FsResult(c, rem, NoDoc, TRUE, <<>>)
     ELSE FsResult(cacheSet(c, uri.path, newObject(c, uri.path), saved.doc),
                   saved.remote, saved.doc, FALSE,
                   << <<FileChange("Changed", uri)>> >>)

delete(c, rem, uri, listing, ok) ==
  LET got == _getSecretFromPath(c, uri.path, listing)
      gone == _deleteSecret(rem, got.doc.id, ok)
  IN IF got.threw THEN FsResult(c, rem, NoDoc, TRUE, <<>>)
     ELSE IF got.doc = NoDoc THEN FsResult(got.cache, rem, NoDoc, TRUE, <<>>)
     ELSE IF gone.threw THEN FsResult(got.cache, rem, NoDoc, TRUE, <<>>)
     ELSE FsResult(cacheDelete(got.cache, uri.path), gone.remote, got.doc, FALSE,
                   << <<FileChange("Deleted", uri)>> >>)

rename(c, rem, oldUri, newUri, listing, ok, id) ==
  LET got == _getSecretFromPath(c, oldUri.path, listing)
      newKey == _getSecretKeyFromPath(newUri.path)
      keyed == assignKey(got.cache, got.ref, newKey)
      secret == [got.doc EXCEPT !.key = newKey]
      saved == _saveSecret(rem, secret, FALSE, ok, id)
  IN IF got.threw THEN FsResult(c, rem, NoDoc, TRUE, <<>>)
     ELSE IF got.doc = NoDoc THEN FsResult(got.cache, rem, NoDoc, TRUE, <<>>)
     ELSE IF saved.threw THEN FsResult(keyed, rem, NoDoc, TRUE, <<>>)
     ELSE FsResult(cacheSet(cacheDelete(keyed, oldUri.path), newUri.path,
                            got.ref, secret),
                   saved.remote, secret, FALSE,
                   << <<FileChange("Deleted", oldUri)>>,
                      <<FileChange("Created", newUri)>> >>)

\* ---- _fireSoon and its timer
MaxEvents == 2       \* events handed to _fireSoon in one run

Numbered(events, from) ==
  [i \in 1..Len(events) |-> [n |-> from + i, type |-> events[i].type, key |-> events[i].key]]

\* the state of the buffer and the timer
Firing(buf, tmr, count) == [buffer |-> buf, timer |-> tmr, passed |-> count]

\* a variant that starts the buffer again when it restarts the timer
_fireSoon_restartsBuffer(f, events) ==
  Firing(IF f.timer # 0 THEN Numbered(events, f.passed)
                        ELSE f.buffer \o Numbered(events, f.passed),
         f.passed + Len(events), f.passed + Len(events))

\* _fireSoon(...events): push the events, clear the timer that runs and set a
\* new one.  The timer is named by the number of the prev event it waits for.
_fireSoon(f, events) ==
  Firing(f.buffer \o Numbered(events, f.passed),
         f.passed + Len(events), f.passed + Len(events))

RECURSIVE fireEach(_, _)
fireEach(f, fired) ==
  IF fired = <<>> THEN f ELSE fireEach(_fireSoon(f, Head(fired)), Tail(fired))

\* ---- the runtime of the provider
\* what is kept of the last call: a writeFile that succeeded with the document
\* it saved, and a readFile of the same uri that follows it with the document
\* it returned
FsLast(op, key, r, prev) ==
  IF op = "writeFile" /\ ~r.threw
  THEN [op |-> op, key |-> key, ok |-> TRUE, doc |-> r.doc, saved |-> NoDoc]
  ELSE IF op = "readFile" /\ prev.op = "writeFile" /\ prev.key = key
  THEN [op |-> op, key |-> key, ok |-> ~r.threw, doc |-> r.doc, saved |-> prev.doc]
  ELSE NoOperation

\* what the editor saves to the file of a key: a new secret or one the
\* service holds under that key, or a document with no key
Contents(rem, k) ==
  {SecretDocument(id, k, value) :
     id \in {NewSecretId} \cup {d.id : d \in {x \in rem : x.key = k}},
     value \in FsValues}
    \cup {SecretDocument(NewSecretId, "", "x")}

InitialRemote ==
  {{SecretDocument(IdNames[1], "a", "x")}}

FsInit ==
  /\ EnvIdle /\ CmdIdle /\ UiIdle /\ AppIdle /\ SvcIdle
  /\ remote \in InitialRemote
  /\ cache = {}
  /\ fsLast = NoOperation
  /\ passed = 0
  /\ buffer = <<>>
  /\ timer = 0
  /\ emitted = <<>>

fsFrame == <<envVars, cmdVars, uiVars, appVars, svcVars>>

Apply(op, key, r) ==
  /\ passed + Len(r.fired) <= MaxEvents
  /\ LET f == fireEach(Firing(buffer, timer, passed), r.fired)
     IN /\ buffer' = f.buffer
        /\ timer' = f.timer
        /\ passed' = f.passed
  /\ cache' = r.cache
  /\ remote' = r.remote
  /\ fsLast' = FsLast(op, key, r, fsLast)
  /\ UNCHANGED <<emitted, fsFrame>>

Stat ==
  \E k \in FsKeys : \E listing \in Listings(remote, k) :
    Apply("stat", k, stat(cache, remote, Uri(k), listing))

ReadFile ==
  \E k \in FsKeys : \E listing \in Listings(remote, k) :
    Apply("readFile", k, readFile(cache, remote, Uri(k), listing))

WriteFile ==
  /\ HasFreeId(remote, cache, fsLast)
  /\ \E k \in FsKeys : \E secret \in Contents(remote, k) : \E ok \in BOOLEAN :
       Apply("writeFile", k,
             providerWriteFile(cache, remote, Uri(k), secret, ok,
                       FreeId(remote, cache, fsLast)))

Delete ==
  \E k \in FsKeys : \E listing \in Listings(remote, k) : \E ok \in BOOLEAN :
    Apply("delete", k, delete(cache, remote, Uri(k), listing, ok))

Rename ==
  /\ HasFreeId(remote, cache, fsLast)
  /\ \E k \in FsKeys : \E to \in FsKeys \ {k} :
     \E listing \in Listings(remote, k) : \E ok \in BOOLEAN :
       Apply("rename", k,
             rename(cache, remote, Uri(k), Uri(to), listing, ok,
                    FreeId(remote, cache, fsLast)))

Refresh ==
  \E k \in FsKeys :
    Apply("refresh", k,
          FsResult(cache, remote, NoDoc, FALSE, << <<FileChange("Changed", Uri(k))>> >>))

\* the callback of setTimeout: fire the buffer and empty it
TimerFires ==
  /\ timer # 0
  /\ emitted' = Append(emitted, buffer)
  /\ buffer' = <<>>
  /\ timer' = 0
  /\ UNCHANGED <<remote, cache, fsLast, passed, fsFrame>>

FsNext ==
  \/ Stat
  \/ ReadFile
  \/ WriteFile
  \/ Delete
  \/ Rename
  \/ Refresh
  \/ TimerFires

SpecFs == FsInit /\ [][FsNext]_vars

\* a timer that is set and not cleared runs out
SpecFsFair == SpecFs /\ WF_vars(TimerFires)

\* ------------------------------------------------------- read after write
\* C25: a readFile(uri) that follows a writeFile(uri, content) that succeeded
\* returns the document that was saved, whatever calls preceded the write.
C25_ReadAfterWrite ==
  (fsLast.op = "readFile" /\ fsLast.saved # NoDoc) =>
    (fsLast.ok /\ fsLast.doc = fsLast.saved)

C25_Stale ==
  /\ fsLast.op = "readFile"
  /\ fsLast.saved # NoDoc
  /\ fsLast.ok
  /\ fsLast.doc # fsLast.saved

\* ------------------------------------------------------------ _fireSoon
RECURSIVE Concat(_)
Concat(batches) ==
  IF batches = <<>> THEN <<>> ELSE Head(batches) \o Concat(Tail(batches))

Delivered == {e.n : e \in Range(Concat(emitted))}

\* every event handed to _fireSoon is in a batch that was fired or in the
\* buffer, once, in the order of the calls; what is buffered has a timer
EventsKept ==
  /\ LET all == Concat(emitted) \o buffer
     IN /\ Len(all) = passed
        /\ \A i \in 1..Len(all) : all[i].n = i
  /\ buffer # <<>> => timer # 0

\* the timer fires the whole buffer as one batch
FiresOneBatch ==
  emitted' # emitted => (emitted' = Append(emitted, buffer) /\ buffer' = <<>>)

\* a call restarts the timer and keeps what is buffered
RestartKeepsBuffer ==
  passed' > passed =>
    /\ Len(buffer') = Len(buffer) + (passed' - passed)
    /\ SubSeq(buffer', 1, Len(buffer)) = buffer
    /\ timer' = passed'
    /\ emitted' = emitted

====
